---------------------------- MODULE Spec2Model ----------------------------
(***************************************************************************)
(* A model of the coordination engine of mapd (pmarsceill/mapcli): the     *)
(* task router, the slot manager (ProcessManager), the durable store's     *)
(* task rows, and the input bridge (InputMonitor and GitHubPoller).        *)
(*                                                                         *)
(* Every goroutine of the daemon is a process of the model; one action is  *)
(* one step between two suspension points (a store call, a tmux or gh      *)
(* command, a lock acquisition).  A store call is one SQL statement and is *)
(* atomic.  Identifiers are small integers: task ids are numbered in       *)
(* creation order (uuid.New is a fresh value), slot ids are numbered in    *)
(* the order sort.Strings puts them, comment ids in the tracker's order;   *)
(* 0 stands for the empty string.                                          *)
(***************************************************************************)
EXTENDS Integers, Sequences, FiniteSets, TLC

\* ------------------------------------------------------------------ bounds
MaxTasks == 1        \* tasks submitted in one behaviour of Spec
MaxSlots == 3        \* slot identifiers the slot manager may register
RouterSlots == 2     \* slots spawned where the router runs
QueueSlots == 1      \* slots spawned, and busy at first, in SpecQueue
MaxQueued == 2       \* tasks waiting in the queue of SpecQueue
SlotTasks == 2       \* tasks submitted in one behaviour of SpecSlots
MaxCallbacks == 2    \* agent-available callbacks queued and not yet started
MaxTime == 5         \* last value of the wall clock (seconds)
MaxComments == 4     \* comments on one issue
IdleThreshold == 1   \* seconds a pane must stay unchanged (10 in the daemon)
PasteDelay == 1      \* tmuxPasteDelay, in seconds
EventCap == 2        \* capacity of the producer channel (100 in the daemon)
WatchCap == 1        \* capacity of a watcher's channel (50 in the daemon)
MaxWatchers == 2     \* watchers that subscribe in one behaviour
MaxEvents == 5       \* events published in one behaviour of SpecBus
MaxAgentEvents == 2  \* lifecycle events published in one behaviour of SpecEvents

TaskIds == 1..MaxTasks
SlotIds == 1..MaxSlots
NoSlot == 0          \* "" as an agent id
NoTask == 0          \* "" as a task id
PPTWorkers == {1, 2} \* goroutines running ProcessPendingTasks at one time

AgentStatusIdle == "idle"
AgentStatusBusy == "busy"

TerminalStatuses == {"completed", "failed", "cancelled"}
ActiveStatuses == {"in_progress", "waiting_input", "accepted", "offered"}
AllStatuses == {"pending", "offered", "accepted", "in_progress",
                "waiting_input", "completed", "failed", "cancelled"}

VARIABLES
    now,          \* time.Now().Unix()
    store,        \* the tasks table: a sequence of TaskRecord, indexed by task id
    agents,       \* the AgentSlot objects: slot id -> [Status, CurrentTask]
    pool,         \* keys of ProcessManager.agents (the live slots)
    spawned,      \* slot ids CreateSlot has ever registered
    lastAssigned, \* ProcessManager.lastAssigned
    routerMu,     \* TaskRouter.mu: 0 when free, else the PPT worker holding it
    route,        \* the routeTask goroutine of each task
    ppt,          \* the ProcessPendingTasks goroutines
    callbacks,    \* `go callback()` goroutines spawned and not yet run
    exec,         \* the ExecuteTask goroutines, one per dispatch
    cancel,       \* the CancelTask handler
    emitted,      \* the task event the last step handed to emitTaskEvent
    dispatched,   \* per task: dispatches made by ProcessPendingTasks passes
    comments,     \* the tracker: per task, the comments of its issue, in order
    closed,       \* the tracker: per task, whether its issue is closed
    pane,         \* per slot: what tmux capture-pane shows
    lastContent,  \* InputMonitor.lastContent ("": no entry)
    lastChangeTime, \* InputMonitor.lastChangeTime (-1: no entry)
    mon,          \* the InputMonitor goroutine
    poll,         \* the GitHubPoller goroutine
    injected,     \* per task and reply: times the reply was pasted (up to 2)
    written,      \* per task: the reply ids ClearTaskWaitingInput has stored
    asked,        \* per task: times SetTaskWaitingInput has succeeded
    eventCh,      \* Server.eventCh, the producer channel
    watchers,     \* Server.watchers: watcher id -> its channel
    everWatched,  \* watcher ids WatchEvents has ever registered
    typeFilter,   \* req.TypeFilter of every watcher, as a set of types
    published,    \* the events handed to emitTaskEvent, in order
    received,     \* per watcher id: the events it took from its channel
    usedNames,    \* NameGenerator.usedNames
    generated,    \* the name GenerateName returned last, and whether it was free
    slotTable,    \* ProcessManager.agents as the spawn and kill handlers use
                  \* it: agent id -> TmuxSession, WorktreePath
    tmux,         \* the session names the tmux server has
    worktrees,    \* WorktreeManager.worktrees: agent id -> Path
    onDisk,       \* the directories under worktreeDir, by name
    spawnH,       \* the SpawnAgent handler
    killH,        \* the KillAgent handler
    sweepH,       \* the CleanupWorktrees handler
    removed,      \* what Cleanup returned last
    server,       \* Server.Stop: its position and what it has shut
    stopLog,      \* the steps Stop has taken, in order
    sentOk,       \* the tasks for which an ExecuteTask call has returned nil
    keys,         \* what the last call that typed into a session delivered
    keysIn,       \* the texts that call was given
    paneDead,     \* the sessions whose pane tmux reports dead
    respawn,      \* the last RespawnInPane call: its agent, its error and
                  \* whether tmux respawn-pane was run
    mapMu,        \* ProcessManager.mu: its writer and its readers
    slotMu,       \* AgentSlot.mu of every slot: the goroutine that holds it
    th            \* the goroutines that take these locks: what each runs
                  \* and where it is

slotVars == <<agents, pool, spawned, lastAssigned>>
routerVars == <<routerMu, route, ppt, callbacks, exec, dispatched>>
trackerVars == <<comments, closed>>
monitorVars == <<pane, lastContent, lastChangeTime, mon, asked>>
pollerVars == <<poll, injected, written>>
bridgeVars == <<trackerVars, monitorVars, pollerVars>>
busVars == <<eventCh, watchers, everWatched, typeFilter, published, received>>
nameVars == <<usedNames, generated>>
fleetVars == <<slotTable, tmux, worktrees, onDisk, spawnH, killH, sweepH,
               removed>>
stopVars == <<server, stopLog>>
hostVars == <<nameVars, fleetVars, stopVars>>

keyVars == <<keys, keysIn>>
paneVars == <<paneDead, respawn>>
lockVars == <<mapMu, slotMu, th>>
sideVars == <<sentOk, keyVars, paneVars, lockVars>>

\* the variables of the router, the bridge and the bus
daemonVars == <<now, store, slotVars, routerVars, cancel, emitted, bridgeVars,
                busVars, sideVars>>

\* ------------------------------------------------------------------ store
\* TaskRecord as CreateTask inserts it for SubmitTask
NewTaskRecord(gh) ==
    [Status |-> "pending", AssignedTo |-> NoSlot, UpdatedAt |-> now,
     Error |-> "", GitHub |-> gh, LastCommentID |-> 0,
     WaitingInputQuestion |-> "", WaitingInputSince |-> 0]

\* a nil *TaskRecord
NilTask ==
    [Status |-> "nil", AssignedTo |-> NoSlot, UpdatedAt |-> 0,
     Error |-> "", GitHub |-> FALSE, LastCommentID |-> 0,
     WaitingInputQuestion |-> "", WaitingInputSince |-> 0]

\* SELECT ... WHERE task_id = ?  (a missing row scans to nil)
GetTask(t) == IF t \in DOMAIN store THEN store[t] ELSE NilTask

\* UPDATE tasks SET <every column but created_at> WHERE task_id = ?
UpdateTask(t, rec) ==
    IF t \in DOMAIN store THEN [store EXCEPT ![t] = rec] ELSE store

\* UpdateTaskStatus that matches no row
UpdateTaskStatusNoRow(s, t, status) == s

\* UPDATE tasks SET status = ?, updated_at = ? WHERE task_id = ?
UpdateTaskStatus(s, t, status) ==
    IF t \in DOMAIN s
    THEN [s EXCEPT ![t].Status = status, ![t].UpdatedAt = now]
    ELSE s

\* UPDATE tasks SET assigned_to = ?, status = 'accepted', updated_at = ?
AssignTask(s, t, instanceID) ==
    IF t \in DOMAIN s
    THEN [s EXCEPT ![t].AssignedTo = instanceID, ![t].Status = "accepted",
                   ![t].UpdatedAt = now]
    ELSE s

\* SELECT ... WHERE status = ? ORDER BY created_at DESC: newest first
ListTasks(statusFilter) ==
    LET D[i \in 0..Len(store)] ==
            IF i = 0 THEN <<>>
            ELSE (IF store[i].Status = statusFilter THEN <<i>> ELSE <<>>)
                 \o D[i - 1]
    IN D[Len(store)]

\* ------------------------------------------------------------------ events
\* an emitTaskEvent that builds no event
emitNothing(type, t) == <<"none", 0>>

\* emitTaskEvent: the event is offered to the producer channel
emitTaskEvent(type, t) == <<type, t>>

\* a step that emits nothing
NoEvent == <<"none", NoTask>>

\* no callback is registered: onAgentAvailable is nil
noCallback(n) == n

\* `go callback()`: one more ProcessPendingTasks goroutine to run.  Queued
\* callbacks beyond MaxCallbacks are merged with the last one queued.
goCallback(n) == IF n < MaxCallbacks THEN n + 1 ELSE n

\* ------------------------------------------------------------------ slots
\* ids of the live slots in sort.Strings order
SortedIds(S) ==
    CHOOSE ids \in [1..Cardinality(S) -> S] :
        \A i, j \in 1..Cardinality(S) : i < j => ids[i] < ids[j]

Min(S) == CHOOSE x \in S : \A y \in S : x <= y

\* a scan that always starts at the first identifier (first fit)
FindFirstIdle(P, A, last) ==
    LET idle == {s \in P : A[s].Status = AgentStatusIdle}
    IN IF idle = {} THEN NoSlot ELSE Min(idle)

\* FindAvailableAgent: the slot returned (NoSlot for nil), as the code scans
FindAvailableAgentResult(P, A, last) ==
    IF P = {} THEN NoSlot
    ELSE LET ids == SortedIds(P)
             n == Cardinality(P)
             hit == {i \in 1..n : ids[i] = last}
             \* 0-based startIdx = (i + 1) % len(ids)
             startIdx == IF last # NoSlot /\ hit # {}
                         THEN ((Min(hit) - 1) + 1) % n
                         ELSE 0
             at(k) == ids[((startIdx + k) % n) + 1]
             found == {k \in 0..(n - 1) : A[at(k)].Status = AgentStatusIdle}
         IN IF found = {} THEN NoSlot ELSE at(Min(found))

\* FindAvailableAgent as a step: the slot returned and m.lastAssigned after
FindAvailableAgent(slot) ==
    /\ slot = FindAvailableAgentResult(pool, agents, lastAssigned)
    /\ lastAssigned' = IF slot # NoSlot THEN slot ELSE lastAssigned

\* CreateSlot: a new idle slot is registered and the callback is spawned
CreateSlot(id) ==
    /\ id \notin pool
    /\ id \notin spawned
    /\ agents' = [agents EXCEPT ![id] =
                    [Status |-> AgentStatusIdle, CurrentTask |-> NoTask]]
    /\ pool' = pool \cup {id}
    /\ spawned' = spawned \cup {id}
    /\ callbacks' = goCallback(callbacks)
    /\ emitted' = NoEvent
    /\ UNCHANGED <<now, store, lastAssigned, routerMu, route, ppt, exec,
                   cancel, dispatched, bridgeVars>>

\* Remove: the slot leaves the map (its session is then killed)
Remove(id) ==
    /\ id \in pool
    /\ pool' = pool \ {id}
    /\ emitted' = NoEvent
    /\ UNCHANGED <<now, store, agents, spawned, lastAssigned, routerVars,
                   cancel, bridgeVars>>

\* ------------------------------------------------------------------ router
\* the value of routerMu while SubmitTask holds the lock
MuSubmit == 9

\* ProcessPendingTasks that does not wait for a SubmitTask in progress
TryLockDuringSubmit(w) == routerMu \in {0, MuSubmit}

\* ProcessPendingTasks without its lock: every caller enters at once
TryLockAlways(w) == TRUE

\* r.mu.Lock() succeeds when no goroutine holds the router lock
TryLock(w) == routerMu = 0

NoRoute == [pc |-> "none", slot |-> NoSlot]
NoPPT == [pc |-> "none", list |-> <<>>, i |-> 0, slot |-> NoSlot]
NoExec == [pc |-> "none", slot |-> NoSlot, err |-> "", rec |-> NilTask]
Origins == {"route", "ppt"}

\* a saturating count of the dispatches of one task
Bump(n) == IF n < 2 THEN n + 1 ELSE n

\* SubmitTask: under r.mu, CreateTask, emit created, `go r.routeTask(task)`
SubmitTask(gh) ==
    /\ routerMu = 0
    /\ Len(store) < Cardinality(DOMAIN route)
    /\ LET t == Len(store) + 1 IN
        /\ store' = Append(store, NewTaskRecord(gh))
        /\ emitted' = emitTaskEvent("created", t)
        /\ route' = [route EXCEPT ![t] = [pc |-> "find", slot |-> NoSlot]]
    /\ UNCHANGED <<now, slotVars, routerMu, ppt, callbacks, exec, cancel,
                   dispatched, bridgeVars>>

\* SubmitTask up to CreateTask, under r.mu; a store error returns (unlocks)
SubmitCreate(gh, ok) ==
    /\ routerMu = 0
    /\ Len(store) < Cardinality(DOMAIN route)
    /\ IF ok
       THEN /\ store' = Append(store, NewTaskRecord(gh))
            /\ routerMu' = MuSubmit
       ELSE UNCHANGED <<store, routerMu>>
    /\ emitted' = NoEvent
    /\ UNCHANGED <<now, slotVars, route, ppt, callbacks, exec, cancel,
                   dispatched, bridgeVars>>

\* SubmitTask after CreateTask: emit created, `go r.routeTask(task)`, return
\* (unlock)
SubmitEmit ==
    /\ routerMu = MuSubmit
    /\ LET t == Len(store) IN
        /\ emitted' = emitTaskEvent("created", t)
        /\ route' = [route EXCEPT ![t] = [pc |-> "find", slot |-> NoSlot]]
    /\ routerMu' = 0
    /\ UNCHANGED <<now, store, slotVars, ppt, callbacks, exec, cancel,
                   dispatched, bridgeVars>>

\* executeOnSpawnedAgent, first store call: r.store.AssignTask
executeAssign(t, slot) == store' = AssignTask(store, t, slot)

\* executeOnSpawnedAgent, the rest: UpdateTaskStatus(in_progress), emit
\* started, and `go func()` that will call ExecuteTask
executeStart(t, slot, origin) ==
    /\ store' = UpdateTaskStatus(store, t, "in_progress")
    /\ emitted' = emitTaskEvent("started", t)
    /\ exec' = [exec EXCEPT ![<<t, origin>>] =
                  [pc |-> "acquire", slot |-> slot, err |-> "", rec |-> NilTask]]

\* routeTask: FindAvailableAgent; no slot leaves the task pending
routeFind(t) ==
    /\ route[t].pc = "find"
    /\ \E slot \in SlotIds \cup {NoSlot} :
        /\ FindAvailableAgent(slot)
        /\ route' = [route EXCEPT ![t] =
                        IF slot = NoSlot THEN NoRoute
                        ELSE [pc |-> "assign", slot |-> slot]]
    /\ emitted' = NoEvent
    /\ UNCHANGED <<now, store, agents, pool, spawned, routerMu, ppt,
                   callbacks, exec, cancel, dispatched, bridgeVars>>

routeAssign(t) ==
    /\ route[t].pc = "assign"
    /\ executeAssign(t, route[t].slot)
    /\ route' = [route EXCEPT ![t].pc = "status"]
    /\ emitted' = NoEvent
    /\ UNCHANGED <<now, slotVars, routerMu, ppt, callbacks, exec, cancel,
                   dispatched, bridgeVars>>

routeStart(t) ==
    /\ route[t].pc = "status"
    /\ executeStart(t, route[t].slot, "route")
    /\ route' = [route EXCEPT ![t] = NoRoute]
    /\ UNCHANGED <<now, slotVars, routerMu, ppt, callbacks, cancel,
                   dispatched, bridgeVars>>

\* ProcessPendingTasks: a queued callback runs, takes r.mu and lists the
\* pending tasks; with nothing pending it returns at once
PPTLock(w) ==
    /\ callbacks > 0
    /\ ppt[w].pc = "none"
    /\ \A v \in DOMAIN ppt : v < w => ppt[v].pc # "none"
    /\ TryLock(w)
    /\ callbacks' = callbacks - 1
    /\ LET pendingTasks == ListTasks("pending") IN
        IF pendingTasks = <<>>
        THEN UNCHANGED <<ppt, routerMu>>
        ELSE /\ routerMu' = w
             /\ ppt' = [ppt EXCEPT ![w] =
                          [pc |-> "find", list |-> pendingTasks,
                           i |-> Len(pendingTasks), slot |-> NoSlot]]
    /\ emitted' = NoEvent
    /\ UNCHANGED <<now, store, slotVars, route, exec, cancel, dispatched,
                   bridgeVars>>

\* loop body: FindAvailableAgent; nil ends the pass and releases r.mu
PPTFind(w) ==
    /\ ppt[w].pc = "find"
    /\ \E slot \in SlotIds \cup {NoSlot} :
        /\ FindAvailableAgent(slot)
        /\ IF slot = NoSlot
           THEN /\ ppt' = [ppt EXCEPT ![w] = NoPPT]
                /\ routerMu' = 0
           ELSE /\ ppt' = [ppt EXCEPT ![w].pc = "assign", ![w].slot = slot]
                /\ UNCHANGED routerMu
    /\ emitted' = NoEvent
    /\ UNCHANGED <<now, store, agents, pool, spawned, route, callbacks, exec,
                   cancel, dispatched, bridgeVars>>

PPTAssign(w) ==
    /\ ppt[w].pc = "assign"
    /\ executeAssign(ppt[w].list[ppt[w].i], ppt[w].slot)
    /\ ppt' = [ppt EXCEPT ![w].pc = "status"]
    /\ emitted' = NoEvent
    /\ UNCHANGED <<now, slotVars, routerMu, route, callbacks, exec, cancel,
                   dispatched, bridgeVars>>

\* the dispatch completes; i-- and, past the oldest task, return and unlock
PPTStart(w) ==
    /\ ppt[w].pc = "status"
    /\ executeStart(ppt[w].list[ppt[w].i], ppt[w].slot, "ppt")
    /\ dispatched' = [dispatched EXCEPT ![ppt[w].list[ppt[w].i]] = Bump(@)]
    /\ IF ppt[w].i = 1
       THEN /\ ppt' = [ppt EXCEPT ![w] = NoPPT]
            /\ routerMu' = 0
       ELSE /\ ppt' = [ppt EXCEPT ![w].pc = "find", ![w].i = @ - 1,
                                  ![w].slot = NoSlot]
            /\ UNCHANGED routerMu
    /\ UNCHANGED <<now, slotVars, route, callbacks, cancel, bridgeVars>>

\* ------------------------------------------------------------------ ExecuteTask
\* slot.Status = busy, slot.CurrentTask = taskID, under slot.mu
AcquireSlot(a, t) == [a EXCEPT !.Status = AgentStatusBusy, !.CurrentTask = t]

\* a release that resets the status and forgets the current task
ReleaseSlotStatusOnly(a) == [a EXCEPT !.Status = AgentStatusIdle]

\* the deferred release: slot.Status = idle, slot.CurrentTask = ""
ReleaseSlot(a) == [a EXCEPT !.Status = AgentStatusIdle, !.CurrentTask = NoTask]

\* an acquisition that does not look at the status
ExecAcquireBusy(k) ==
    /\ exec[k].pc = "acquire"
    /\ LET s == exec[k].slot IN
        IF s \notin pool
        THEN /\ exec' = [exec EXCEPT ![k].pc = "failRead", ![k].err = "not found"]
             /\ UNCHANGED agents
        ELSE /\ exec' = [exec EXCEPT ![k].pc = "send"]
             /\ agents' = [agents EXCEPT ![s] = AcquireSlot(@, k[1])]
    /\ emitted' = NoEvent
    /\ UNCHANGED <<now, store, pool, spawned, lastAssigned, routerMu, route,
                   ppt, callbacks, cancel, dispatched, bridgeVars>>

\* ExecuteTask up to the acquisition: unknown slot and busy slot fail fast
ExecAcquire(k) ==
    /\ exec[k].pc = "acquire"
    /\ LET s == exec[k].slot IN
        IF s \notin pool
        THEN /\ exec' = [exec EXCEPT ![k].pc = "failRead", ![k].err = "not found"]
             /\ UNCHANGED agents
        ELSE IF agents[s].Status = AgentStatusBusy
        THEN /\ exec' = [exec EXCEPT ![k].pc = "failRead", ![k].err = "is busy"]
             /\ UNCHANGED agents
        ELSE /\ exec' = [exec EXCEPT ![k].pc = "send"]
             /\ agents' = [agents EXCEPT ![s] = AcquireSlot(@, k[1])]
    /\ emitted' = NoEvent
    /\ UNCHANGED <<now, store, pool, spawned, lastAssigned, routerMu, route,
                   ppt, callbacks, cancel, dispatched, bridgeVars>>

\* a deferred function that releases the slot and calls nothing
ExecReleaseSilent(k, sent) ==
    /\ exec[k].pc = "send"
    /\ agents' = [agents EXCEPT ![exec[k].slot] = ReleaseSlot(@)]
    /\ exec' = [exec EXCEPT ![k] =
                  IF sent THEN NoExec
                  ELSE [@ EXCEPT !.pc = "failRead", !.err = "failed to send"]]
    /\ emitted' = NoEvent
    /\ UNCHANGED <<now, store, pool, spawned, lastAssigned, routerMu, route,
                   ppt, callbacks, cancel, dispatched, bridgeVars>>

\* tmux send-keys -l <prompt>, sleep, tmux send-keys Enter (sent = FALSE: one
\* of the two commands failed); then the deferred function releases the slot
\* and spawns the callback, and ExecuteTask returns
ExecRelease(k, sent) ==
    /\ exec[k].pc = "send"
    /\ agents' = [agents EXCEPT ![exec[k].slot] = ReleaseSlot(@)]
    /\ callbacks' = goCallback(callbacks)
    /\ exec' = [exec EXCEPT ![k] =
                  IF sent THEN NoExec
                  ELSE [@ EXCEPT !.pc = "failRead", !.err = "failed to send"]]
    /\ emitted' = NoEvent
    /\ UNCHANGED <<now, store, pool, spawned, lastAssigned, routerMu, route,
                   ppt, cancel, dispatched, bridgeVars>>

\* the dispatch-failure handler: record, _ := r.store.GetTask(task.TaskId)
ExecFailRead(k) ==
    /\ exec[k].pc = "failRead"
    /\ exec' = [exec EXCEPT ![k] =
                  IF GetTask(k[1]) = NilTask THEN NoExec
                  ELSE [@ EXCEPT !.pc = "failWrite", !.rec = GetTask(k[1])]]
    /\ emitted' = NoEvent
    /\ UNCHANGED <<now, store, slotVars, routerMu, route, ppt, callbacks,
                   cancel, dispatched, bridgeVars>>

\* ... record.Status = "failed"; UpdateTask(record); emit failed
ExecFailWrite(k) ==
    /\ exec[k].pc = "failWrite"
    /\ store' = UpdateTask(k[1], [exec[k].rec EXCEPT !.Status = "failed",
                                      !.Error = exec[k].err, !.UpdatedAt = now])
    /\ emitted' = emitTaskEvent("failed", k[1])
    /\ exec' = [exec EXCEPT ![k] = NoExec]
    /\ UNCHANGED <<now, slotVars, routerMu, route, ppt, callbacks, cancel,
                   dispatched, bridgeVars>>

\* ------------------------------------------------------------------ CancelTask
\* a switch that lets only pending through
PendingOnly == {"pending"}

\* a switch that refuses cancelled alone among the terminal statuses
AllButCancelled == AllStatuses \ {"cancelled"}

\* the statuses the switch of CancelTask lets through
CancellableStatuses == {"pending", "in_progress"}

\* ret is what the call returned: <<error text, status named in it>>
NoCancel ==
    [pc |-> "idle", task |-> NoTask, ret |-> <<"none", "">>, rec |-> NilTask]

\* CancelTask up to the switch: GetTask, nil check, status check
CancelRead(t) ==
    /\ cancel.pc = "idle"
    /\ LET task == GetTask(t) IN
        cancel' =
            IF task = NilTask
            THEN [pc |-> "idle", task |-> t, ret |-> <<"task not found", "">>,
                  rec |-> NilTask]
            ELSE IF task.Status \in CancellableStatuses
            THEN [pc |-> "write", task |-> t, ret |-> <<"none", "">>,
                  rec |-> task]
            ELSE [pc |-> "idle", task |-> t,
                  ret |-> <<"cannot cancel task in status", task.Status>>,
                  rec |-> NilTask]
    /\ emitted' = NoEvent
    /\ UNCHANGED <<now, store, slotVars, routerVars, bridgeVars>>

\* task.Status = "cancelled"; task.UpdatedAt = time.Now(); UpdateTask; emit
CancelWrite(ok) ==
    /\ cancel.pc = "write"
    /\ IF ok
       THEN /\ store' = UpdateTask(cancel.task,
                           [cancel.rec EXCEPT !.Status = "cancelled",
                                              !.UpdatedAt = now])
            /\ emitted' = emitTaskEvent("cancelled", cancel.task)
            /\ cancel' = [cancel EXCEPT !.pc = "idle", !.ret = <<"ok", "">>,
                                        !.rec = NilTask]
       ELSE /\ cancel' = [cancel EXCEPT !.pc = "idle",
                                        !.ret = <<"store error", "">>,
                                        !.rec = NilTask]
            /\ emitted' = NoEvent
            /\ UNCHANGED store
    /\ UNCHANGED <<now, slotVars, routerVars, bridgeVars>>

\* ------------------------------------------------------------------ bridge store
\* the slot's tasks GetTaskByAgentID chooses among: assigned_to = ? AND status
\* IN ('in_progress', 'waiting_input')
AgentTasks(agentID) ==
    {t \in DOMAIN store :
        /\ store[t].AssignedTo = agentID
        /\ store[t].Status \in {"in_progress", "waiting_input"}}

\* ... ORDER BY updated_at DESC LIMIT 1 (rows updated in the same second come
\* in either order)
GetTaskByAgentID(agentID) ==
    {t \in AgentTasks(agentID) :
        \A u \in AgentTasks(agentID) : store[u].UpdatedAt <= store[t].UpdatedAt}

\* UPDATE tasks SET status = 'waiting_input', waiting_input_question = ?,
\* waiting_input_since = ?, updated_at = ?
SetTaskWaitingInput(s, t, question) ==
    [s EXCEPT ![t].Status = "waiting_input",
              ![t].WaitingInputQuestion = question,
              ![t].WaitingInputSince = now,
              ![t].UpdatedAt = now]

\* an UPDATE that clears the question and the time and leaves the status
ClearQuestionOnly(s, t, lastCommentID) ==
    [s EXCEPT ![t].WaitingInputQuestion = "",
              ![t].WaitingInputSince = 0,
              ![t].LastCommentID = lastCommentID,
              ![t].UpdatedAt = now]

\* UPDATE tasks SET status = 'in_progress', waiting_input_question = '',
\* waiting_input_since = 0, last_comment_id = ?, updated_at = ?
ClearTaskWaitingInput(s, t, lastCommentID) ==
    [s EXCEPT ![t].Status = "in_progress",
              ![t].WaitingInputQuestion = "",
              ![t].WaitingInputSince = 0,
              ![t].LastCommentID = lastCommentID,
              ![t].UpdatedAt = now]

\* the task ids of a set as a sequence, in the order of key (then of id)
SortedBy(S, key) ==
    CHOOSE q \in [1..Cardinality(S) -> S] :
        \A i, j \in 1..Cardinality(S) :
            i < j => \/ key[q[i]] < key[q[j]]
                     \/ key[q[i]] = key[q[j]] /\ q[i] < q[j]

\* a row as the poller keeps it while it works on the task
Row(t) == [id |-> t, rec |-> store[t]]

\* SELECT ... WHERE status = 'waiting_input' AND <a GitHub source>
\* ORDER BY waiting_input_since ASC
ListTasksWaitingInput ==
    LET S == {t \in DOMAIN store :
                 store[t].Status = "waiting_input" /\ store[t].GitHub}
        since == [t \in S |-> store[t].WaitingInputSince]
        q == SortedBy(S, since)
    IN [i \in 1..Cardinality(S) |-> Row(q[i])]

\* the in_progress tasks that have a GitHub source
ListTasksInProgressWithGitHub ==
    LET S == {t \in DOMAIN store :
                 store[t].Status = "in_progress" /\ store[t].GitHub}
        id == [t \in S |-> t]
        q == SortedBy(S, id)
    IN [i \in 1..Cardinality(S) |-> Row(q[i])]

\* ------------------------------------------------------------------ InputMonitor
\* what a pane can show: output of an agent at work (activePatterns match)
\* or a question (questionPatterns match, activePatterns do not)
PaneKinds == {"work", "ask"}

isActivelyWorking(content) == content = "work"
extractQuestion(content) == IF content = "ask" THEN "question" ELSE ""

NoMon == [pc |-> "idle", task |-> NoTask, slot |-> NoSlot, question |-> ""]

\* gh issue comment: the question arrives as a comment of the bot
PostQuestionToGitHub(t) ==
    [comments EXCEPT ![t] = Append(@, [at |-> now, bot |-> TRUE])]

\* a checkAgent that does not wait for the idle threshold
MonCheckEager(s, captured, posted) ==
    /\ mon.pc = "idle"
    /\ s \in pool
    /\ \E t \in GetTaskByAgentID(s) \cup {NoTask} :
        /\ t = NoTask <=> GetTaskByAgentID(s) = {}
        /\ LET content == IF captured THEN pane[s] ELSE ""
               skip == \/ t = NoTask
                       \/ ~store[t].GitHub
                       \/ store[t].Status # "in_progress"
                       \/ content = ""
               changed == content # lastContent[s]
               idleFor == now - lastChangeTime[s]
               ask == /\ ~skip /\ ~changed /\ lastChangeTime[s] # -1
                      /\ ~isActivelyWorking(content)
                      /\ extractQuestion(content) # ""
           IN /\ ask /\ posted => Len(comments[t]) < MaxComments
              /\ lastContent' = IF ~skip /\ changed
                                THEN [lastContent EXCEPT ![s] = content]
                                ELSE lastContent
              /\ lastChangeTime' =
                    IF ~skip /\ (changed \/ lastChangeTime[s] = -1)
                    THEN [lastChangeTime EXCEPT ![s] = now]
                    ELSE lastChangeTime
              /\ comments' = IF ask /\ posted THEN PostQuestionToGitHub(t)
                             ELSE comments
              /\ mon' = IF ask /\ posted
                        THEN [pc |-> "set", task |-> t, slot |-> s,
                              question |-> extractQuestion(content)]
                        ELSE mon
    /\ emitted' = NoEvent
    /\ UNCHANGED <<now, store, slotVars, routerVars, cancel, closed, pane,
                   asked, pollerVars>>

\* checkAgent up to PostQuestionToGitHub.  captured: capture-pane worked;
\* posted: gh issue comment worked.
MonCheck(s, captured, posted) ==
    /\ mon.pc = "idle"
    /\ s \in pool
    /\ \E t \in GetTaskByAgentID(s) \cup {NoTask} :
        /\ t = NoTask <=> GetTaskByAgentID(s) = {}
        /\ LET content == IF captured THEN pane[s] ELSE ""
               skip == \/ t = NoTask
                       \/ ~store[t].GitHub
                       \/ store[t].Status # "in_progress"
                       \/ content = ""
               changed == content # lastContent[s]
               idleFor == now - lastChangeTime[s]
               ask == /\ ~skip /\ ~changed /\ lastChangeTime[s] # -1
                      /\ idleFor >= IdleThreshold
                      /\ ~isActivelyWorking(content)
                      /\ extractQuestion(content) # ""
           IN /\ ask /\ posted => Len(comments[t]) < MaxComments
              /\ lastContent' = IF ~skip /\ changed
                                THEN [lastContent EXCEPT ![s] = content]
                                ELSE lastContent
              /\ lastChangeTime' =
                    IF ~skip /\ (changed \/ lastChangeTime[s] = -1)
                    THEN [lastChangeTime EXCEPT ![s] = now]
                    ELSE lastChangeTime
              /\ comments' = IF ask /\ posted THEN PostQuestionToGitHub(t)
                             ELSE comments
              /\ mon' = IF ask /\ posted
                        THEN [pc |-> "set", task |-> t, slot |-> s,
                              question |-> extractQuestion(content)]
                        ELSE mon
    /\ emitted' = NoEvent
    /\ UNCHANGED <<now, store, slotVars, routerVars, cancel, closed, pane,
                   asked, pollerVars>>

\* checkAgent from SetTaskWaitingInput on: on success the tracking of the
\* agent is reset and the event is emitted; on an error it returns.  asked
\* counts the moves from in_progress to waiting_input this makes.
MonSet(ok) ==
    /\ mon.pc = "set"
    /\ IF ok
       THEN /\ store' = SetTaskWaitingInput(store, mon.task, mon.question)
            /\ lastContent' = [lastContent EXCEPT ![mon.slot] = ""]
            /\ lastChangeTime' = [lastChangeTime EXCEPT ![mon.slot] = -1]
            /\ asked' = [asked EXCEPT ![mon.task] =
                            IF store[mon.task].Status = "in_progress"
                            THEN @ + 1 ELSE @]
            /\ emitted' = <<"waiting_input", mon.task>>
       ELSE /\ emitted' = NoEvent
            /\ UNCHANGED <<store, lastContent, lastChangeTime, asked>>
    /\ mon' = NoMon
    /\ UNCHANGED <<now, slotVars, routerVars, cancel, trackerVars, pane,
                   pollerVars>>

\* ------------------------------------------------------------------ GitHubPoller
\* checkTaskForResponse without its test of WaitingInputSince: a reply need
\* not be as new as the wait
newCommentAnyTime(cs, rec) ==
    LET C == {i \in 1..Len(cs) :
                 /\ ~cs[i].bot
                 /\ ~(rec.LastCommentID # 0 /\ i = rec.LastCommentID)}
    IN IF C = {} THEN 0 ELSE CHOOSE i \in C : \A j \in C : j <= i

\* the loop of checkTaskForResponse run from the oldest comment on
oldestComment(cs, rec) ==
    LET C == {i \in 1..Len(cs) :
                 /\ ~(cs[i].at < rec.WaitingInputSince)
                 /\ ~cs[i].bot
                 /\ ~(rec.LastCommentID # 0 /\ i = rec.LastCommentID)}
    IN IF C = {} THEN 0 ELSE CHOOSE i \in C : \A j \in C : i <= j

\* the loop of checkTaskForResponse: the newest comment that was not created
\* before WaitingInputSince, is not a question of the daemon and is not
\* LastCommentID; 0 when there is none
newComment(cs, rec) ==
    LET C == {i \in 1..Len(cs) :
                 /\ ~(cs[i].at < rec.WaitingInputSince)
                 /\ ~cs[i].bot
                 /\ ~(rec.LastCommentID # 0 /\ i = rec.LastCommentID)}
    IN IF C = {} THEN 0 ELSE CHOOSE i \in C : \A j \in C : j <= i

NoPoll == [pc |-> "idle", list |-> <<>>, i |-> 0, reply |-> 0, sentAt |-> 0]

\* the loop over waitingTasks goes on to its next task, or poll goes on to
\* the issues that may be closed
nextWaiting ==
    IF poll.i < Len(poll.list)
    THEN [poll EXCEPT !.pc = "fetch", !.i = @ + 1, !.reply = 0, !.sentAt = 0]
    ELSE [NoPoll EXCEPT !.pc = "closedList"]

\* poll: ListTasksWaitingInput
PollStart(ok) ==
    /\ poll.pc = "idle"
    /\ poll' = IF ok /\ Len(ListTasksWaitingInput) > 0
               THEN [NoPoll EXCEPT !.pc = "fetch", !.i = 1,
                                   !.list = ListTasksWaitingInput]
               ELSE [NoPoll EXCEPT !.pc = "closedList"]
    /\ emitted' = NoEvent
    /\ UNCHANGED <<now, store, slotVars, routerVars, cancel, trackerVars,
                   monitorVars, injected, written>>

\* checkTaskForResponse up to the paste of deliverResponseToAgent.  ok: gh
\* issue view worked; sent: tmux send-keys -l worked.
PollFetch(ok, sent) ==
    /\ poll.pc = "fetch"
    /\ LET t == poll.list[poll.i].id
           rec == poll.list[poll.i].rec
           c == IF ok THEN newComment(comments[t], rec) ELSE 0
           deliver == /\ c # 0
                      /\ rec.AssignedTo # NoSlot
                      /\ rec.AssignedTo \in pool
                      /\ sent
       IN /\ poll' = IF deliver
                     THEN [poll EXCEPT !.pc = "enter", !.reply = c,
                                       !.sentAt = now]
                     ELSE nextWaiting
          /\ injected' = IF deliver
                         THEN [injected EXCEPT ![t][c] = Bump(@)]
                         ELSE injected
    /\ emitted' = NoEvent
    /\ UNCHANGED <<now, store, slotVars, routerVars, cancel, trackerVars,
                   monitorVars, written>>

\* the two Enter keys with their errors ignored
PollEnterUnchecked(ok) ==
    /\ poll.pc = "enter"
    /\ now >= poll.sentAt + PasteDelay
    /\ poll' = [poll EXCEPT !.pc = "clear"]
    /\ emitted' = NoEvent
    /\ UNCHANGED <<now, store, slotVars, routerVars, cancel, trackerVars,
                   monitorVars, injected, written>>

\* deliverResponseToAgent after time.Sleep(tmuxPasteDelay): the two Enter
\* keys.  ok: both send-keys worked.
PollEnter(ok) ==
    /\ poll.pc = "enter"
    /\ now >= poll.sentAt + PasteDelay
    /\ poll' = IF ok THEN [poll EXCEPT !.pc = "clear"] ELSE nextWaiting
    /\ emitted' = NoEvent
    /\ UNCHANGED <<now, store, slotVars, routerVars, cancel, trackerVars,
                   monitorVars, injected, written>>

\* checkTaskForResponse from ClearTaskWaitingInput on
PollClear(ok) ==
    /\ poll.pc = "clear"
    /\ LET t == poll.list[poll.i].id
       IN IF ok
          THEN /\ store' = ClearTaskWaitingInput(store, t, poll.reply)
               /\ written' = [written EXCEPT ![t] = Append(@, poll.reply)]
               /\ emitted' = <<"input_received", t>>
          ELSE /\ emitted' = NoEvent
               /\ UNCHANGED <<store, written>>
    /\ poll' = nextWaiting
    /\ UNCHANGED <<now, slotVars, routerVars, cancel, trackerVars,
                   monitorVars, injected>>

\* poll: ListTasksInProgressWithGitHub
PollClosedList(ok) ==
    /\ poll.pc = "closedList"
    /\ poll' = IF ok /\ Len(ListTasksInProgressWithGitHub) > 0
               THEN [NoPoll EXCEPT !.pc = "closed", !.i = 1,
                                   !.list = ListTasksInProgressWithGitHub]
               ELSE NoPoll
    /\ emitted' = NoEvent
    /\ UNCHANGED <<now, store, slotVars, routerVars, cancel, trackerVars,
                   monitorVars, injected, written>>

\* a check of the issue state that gives the task up when gh fails
checkClosedMarksFailed(ok) ==
    /\ poll.pc = "closed"
    /\ LET t == poll.list[poll.i].id
       IN IF ok /\ closed[t]
          THEN /\ store' = UpdateTaskStatus(store, t, "completed")
               /\ emitted' = <<"completed", t>>
          ELSE /\ emitted' = NoEvent
               /\ store' = IF ok THEN store
                           ELSE UpdateTaskStatus(store, t, "failed")
    /\ poll' = IF poll.i < Len(poll.list)
               THEN [poll EXCEPT !.i = @ + 1]
               ELSE NoPoll
    /\ UNCHANGED <<now, slotVars, routerVars, cancel, trackerVars,
                   monitorVars, injected, written>>

\* checkTaskForClosedIssue.  ok: gh issue view and the store update worked.
checkTaskForClosedIssue(ok) ==
    /\ poll.pc = "closed"
    /\ LET t == poll.list[poll.i].id
       IN IF ok /\ closed[t]
          THEN /\ store' = UpdateTaskStatus(store, t, "completed")
               /\ emitted' = <<"completed", t>>
          ELSE /\ emitted' = NoEvent
               /\ UNCHANGED store
    /\ poll' = IF poll.i < Len(poll.list)
               THEN [poll EXCEPT !.i = @ + 1]
               ELSE NoPoll
    /\ UNCHANGED <<now, slotVars, routerVars, cancel, trackerVars,
                   monitorVars, injected, written>>

\* ------------------------------------------------------------------ the tracker and the agents
\* somebody comments on the issue of t
HumanReplies(t) ==
    /\ t \in DOMAIN store
    /\ store[t].GitHub
    /\ Len(comments[t]) < MaxComments
    /\ comments' = [comments EXCEPT ![t] =
                       Append(@, [at |-> now, bot |-> FALSE])]
    /\ emitted' = NoEvent
    /\ UNCHANGED <<now, store, slotVars, routerVars, cancel, closed,
                   monitorVars, pollerVars>>

\* somebody closes the issue of t
CloseIssue(t) ==
    /\ t \in DOMAIN store
    /\ store[t].GitHub
    /\ ~closed[t]
    /\ closed' = [closed EXCEPT ![t] = TRUE]
    /\ emitted' = NoEvent
    /\ UNCHANGED <<now, store, slotVars, routerVars, cancel, comments,
                   monitorVars, pollerVars>>

\* the agent in the session of slot s prints: the pane shows c
AgentPrints(s, c) ==
    /\ s \in pool
    /\ pane[s] # c
    /\ pane' = [pane EXCEPT ![s] = c]
    /\ emitted' = NoEvent
    /\ UNCHANGED <<now, store, slotVars, routerVars, cancel, trackerVars,
                   lastContent, lastChangeTime, mon, asked, pollerVars>>

\* ------------------------------------------------------------------ NameGenerator
AgentTypeClaude == "claude"
AgentTypeCodex == "codex"
AgentTypes == {AgentTypeClaude, AgentTypeCodex}

\* the name lists, cut down to a few entries
frenchFirstNames == {"jacques", "pierre"}
frenchLastNames == {"bernard"}
californiaFirstNames == {"chad"}
californiaLastNames == {"stevenson"}

\* maxAttempts and the range of the suffix, scaled down
MaxAttempts == 2
SuffixRange == 2

NoSuffix == -1
NoName == <<"", "", NoSuffix>>

\* the switch of GenerateName
firstNames(agentType) ==
    IF agentType = AgentTypeCodex THEN californiaFirstNames ELSE frenchFirstNames

lastNames(agentType) ==
    IF agentType = AgentTypeCodex THEN californiaLastNames ELSE frenchLastNames

\* fmt.Sprintf("%s-%s", firstName, lastName)
BaseNames(agentType) ==
    {<<f, l, NoSuffix>> : f \in firstNames(agentType), l \in lastNames(agentType)}

\* fmt.Sprintf("%s-%s-%d", firstName, lastName, suffix)
SuffixedNames(agentType) ==
    {<<f, l, n>> : f \in firstNames(agentType), l \in lastNames(agentType),
                   n \in 0..(SuffixRange - 1)}

AllNames == UNION {BaseNames(a) \cup SuffixedNames(a) : a \in AgentTypes}

\* NewNameGenerator
NamesIdle ==
    /\ usedNames = {}
    /\ generated = [name |-> NoName, free |-> TRUE]

\* GenerateName under ng.mu.  draws: the names the random attempts build, in
\* order; fb: the name the fallback builds.
GenerateName(agentType) ==
    \E draws \in [1..MaxAttempts -> BaseNames(agentType)] :
    \E fb \in SuffixedNames(agentType) :
        LET unused == {i \in 1..MaxAttempts : draws[i] \notin usedNames}
            name == IF unused # {}
                    THEN draws[CHOOSE i \in unused : \A j \in unused : i <= j]
                    ELSE fb
        IN /\ usedNames' = usedNames \cup {name}
           /\ generated' = [name |-> name, free |-> name \notin usedNames]
           /\ UNCHANGED <<daemonVars, fleetVars, stopVars>>

\* ReleaseName: delete(ng.usedNames, name)
ReleaseName(name) ==
    /\ usedNames' = usedNames \ {name}
    /\ UNCHANGED <<generated, daemonVars, fleetVars, stopVars>>

\* MarkUsed: ng.usedNames[name] = true
MarkUsed(name) ==
    /\ usedNames' = usedNames \cup {name}
    /\ UNCHANGED <<generated, daemonVars, fleetVars, stopVars>>

\* ------------------------------------------------------------------ slots and working copies
\* the agent ids the handlers are called with
MaxAgents == 2
HostIds == 1..MaxAgents

tmuxPrefix == "map-agent-"
repoRoot == <<"repo">>

\* the agent id of a slot spawned without name_prefix is the name
\* GenerateName returned: the names of the agent ids
AgentName(id) ==
    IF id = 1 THEN <<"jacques", "bernard", NoSuffix>>
    ELSE IF id = 2 THEN <<"pierre", "bernard", NoSuffix>>
    ELSE <<"chad", "stevenson", NoSuffix>>

\* a session name that leaves the agent id out
tmuxSessionOfPrefix(agentID) == <<tmuxPrefix, 0>>

\* tmuxSession := tmuxPrefix + agentID
tmuxSession(agentID) == <<tmuxPrefix, agentID>>

\* filepath.Join(m.worktreeDir, agentID)
worktreePath(agentID) == <<"worktrees", agentID>>

NoSpawn == [pc |-> "idle", id |-> 0, worktreePath |-> <<>>]
NoKill == [pc |-> "idle", id |-> 0, session |-> <<>>]
\* failed: the orphans the last Cleanup could not remove
\* all: the all field of the last request
NoSweep == [pc |-> "idle", running |-> {}, failed |-> {}, all |-> FALSE]

NoRespawn == [id |-> 0, err |-> "none", ran |-> FALSE]

\* the goroutines that run methods of the router and of the slot manager
MaxThreads == 2
Threads == 1..MaxThreads
NoThread == [op |-> "none", pc |-> "none", slot |-> 0, k |-> 0, ids |-> <<>>]

\* NewProcessManager, NewWorktreeManager over an empty worktree directory
FleetIdle ==
    /\ slotTable = <<>>
    /\ tmux = {}
    /\ worktrees = <<>>
    /\ onDisk = {}
    /\ spawnH = NoSpawn
    /\ killH = NoKill
    /\ sweepH = NoSweep
    /\ removed = <<>>

\* NewServer and Start: the listener accepts, the store is open
Serving ==
    [pc |-> "serving", accepting |-> TRUE, shutdown |-> FALSE,
     fanout |-> TRUE, ids |-> {}, storeOpen |-> TRUE, socket |-> TRUE]

StopIdle ==
    /\ server = Serving
    /\ stopLog = <<>>

\* the managers beside the router, before any call
HostIdle ==
    /\ NamesIdle /\ FleetIdle /\ StopIdle
    /\ sentOk = {}
    /\ keys = <<>>
    /\ keysIn = <<>>
    /\ paneDead = {}
    /\ respawn = NoRespawn
    /\ mapMu = [w |-> 0, r |-> {}]
    /\ slotMu = [s \in SlotIds |-> 0]
    /\ th = [i \in Threads |-> NoThread]

\* a map without the keys of D
Without(m, D) == [k \in DOMAIN m \ D |-> m[k]]

\* a map with key k set to v
With(m, k, v) == [j \in DOMAIN m \cup {k} |-> IF j = k THEN v ELSE m[j]]

\* WorktreeManager.Remove under m.mu: the entry, or the directory of that
\* name, is removed.  ok: git worktree remove or os.RemoveAll worked.
WorktreeRemove(agentID, ok) ==
    IF (agentID \notin DOMAIN worktrees /\ agentID \notin onDisk) \/ ~ok
    THEN UNCHANGED <<worktrees, onDisk>>
    ELSE /\ onDisk' = onDisk \ {agentID}
         /\ worktrees' = Without(worktrees, {agentID})

\* SpawnAgent with a CreateFromRepo that does not look for the directory
CreateOverExisting(id, useWorktree, ok) ==
    /\ server.accepting
    /\ spawnH.pc = "idle"
    /\ IF ~useWorktree
       THEN /\ spawnH' = [pc |-> "slot", id |-> id, worktreePath |-> <<>>]
            /\ UNCHANGED <<worktrees, onDisk>>
       ELSE IF ~ok
       THEN UNCHANGED <<spawnH, worktrees, onDisk>>
       ELSE /\ onDisk' = onDisk \cup {id}
            /\ worktrees' = With(worktrees, id, [Path |-> worktreePath(id)])
            /\ spawnH' = [pc |-> "slot", id |-> id,
                          worktreePath |-> worktreePath(id)]
    /\ UNCHANGED <<slotTable, tmux, killH, sweepH, removed, nameVars,
                   stopVars, daemonVars>>

\* SpawnAgent up to processes.Spawn: the agent id is chosen and, with
\* use_worktree, WorktreeManager.CreateFromRepo runs under m.mu.  ok: the
\* repository is there and git worktree add worked.
SpawnBegin(id, useWorktree, ok) ==
    /\ server.accepting
    /\ spawnH.pc = "idle"
    /\ IF ~useWorktree
       THEN /\ spawnH' = [pc |-> "slot", id |-> id, worktreePath |-> <<>>]
            /\ UNCHANGED <<worktrees, onDisk>>
       ELSE IF id \in onDisk \/ ~ok
       THEN UNCHANGED <<spawnH, worktrees, onDisk>>
       ELSE /\ onDisk' = onDisk \cup {id}
            /\ worktrees' = With(worktrees, id, [Path |-> worktreePath(id)])
            /\ spawnH' = [pc |-> "slot", id |-> id,
                          worktreePath |-> worktreePath(id)]
    /\ UNCHANGED <<slotTable, tmux, killH, sweepH, removed, nameVars,
                   stopVars, daemonVars>>

\* SpawnAgent without name_prefix up to processes.Spawn: GenerateName finds
\* the name of id unused and marks it; then as SpawnBegin.  The name stays
\* marked when CreateFromRepo fails.
SpawnGenerated(id, useWorktree, ok) ==
    /\ server.accepting
    /\ spawnH.pc = "idle"
    /\ AgentName(id) \notin usedNames
    /\ usedNames' = usedNames \cup {AgentName(id)}
    /\ generated' = [name |-> AgentName(id), free |-> TRUE]
    /\ IF ~useWorktree
       THEN /\ spawnH' = [pc |-> "slot", id |-> id, worktreePath |-> <<>>]
            /\ UNCHANGED <<worktrees, onDisk>>
       ELSE IF id \in onDisk \/ ~ok
       THEN UNCHANGED <<spawnH, worktrees, onDisk>>
       ELSE /\ onDisk' = onDisk \cup {id}
            /\ worktrees' = With(worktrees, id, [Path |-> worktreePath(id)])
            /\ spawnH' = [pc |-> "slot", id |-> id,
                          worktreePath |-> worktreePath(id)]
    /\ UNCHANGED <<slotTable, tmux, killH, sweepH, removed, stopVars,
                   daemonVars>>

\* processes.Spawn -> CreateSlot under m.mu.  started: tmux new-session
\* worked (it never does when the session name is taken).
SpawnSlot(started) ==
    /\ spawnH.pc = "slot"
    /\ LET id == spawnH.id
           workdir == IF spawnH.worktreePath = <<>> THEN repoRoot
                      ELSE spawnH.worktreePath
           created == /\ id \notin DOMAIN slotTable
                      /\ tmuxSession(id) \notin tmux
                      /\ started
       IN IF created
          THEN /\ tmux' = tmux \cup {tmuxSession(id)}
               /\ slotTable' = With(slotTable, id,
                                    [TmuxSession |-> tmuxSession(id),
                                     WorktreePath |-> workdir])
               /\ spawnH' = NoSpawn
          ELSE /\ spawnH' = IF spawnH.worktreePath # <<>>
                            THEN [spawnH EXCEPT !.pc = "undo"]
                            ELSE NoSpawn
               /\ UNCHANGED <<tmux, slotTable>>
    /\ UNCHANGED <<worktrees, onDisk, killH, sweepH, removed, nameVars,
                   stopVars, daemonVars>>

\* SpawnAgent after a failed Spawn: _ = s.worktrees.Remove(agentID)
SpawnUndo(ok) ==
    /\ spawnH.pc = "undo"
    /\ WorktreeRemove(spawnH.id, ok)
    /\ spawnH' = NoSpawn
    /\ UNCHANGED <<slotTable, tmux, killH, sweepH, removed, nameVars,
                   stopVars, daemonVars>>

\* KillAgent: s.processes.Get; an unknown agent is answered at once
KillGet(id) ==
    /\ server.accepting
    /\ killH.pc = "idle"
    /\ id \in DOMAIN slotTable
    /\ killH' = [pc |-> "worktree", id |-> id, session |-> <<>>]
    /\ UNCHANGED <<slotTable, tmux, worktrees, onDisk, spawnH, sweepH,
                   removed, nameVars, stopVars, daemonVars>>

\* KillAgent: slot.WorktreePath is never "", so s.worktrees.Remove runs;
\* then s.names.ReleaseName(agentID)
KillWorktree(ok) ==
    /\ killH.pc = "worktree"
    /\ WorktreeRemove(killH.id, ok)
    /\ usedNames' = usedNames \ {AgentName(killH.id)}
    /\ killH' = [killH EXCEPT !.pc = "remove"]
    /\ UNCHANGED <<slotTable, tmux, spawnH, sweepH, removed, generated,
                   stopVars, daemonVars>>

\* ProcessManager.Remove under m.mu: the entry leaves the map
RemoveEntry(id) ==
    slotTable' = Without(slotTable, {id})

\* KillAgent: s.processes.Remove, the part under m.mu
KillRemove ==
    /\ killH.pc = "remove"
    /\ RemoveEntry(killH.id)
    /\ killH' = IF killH.id \in DOMAIN slotTable
                THEN [killH EXCEPT !.pc = "session",
                                   !.session = slotTable[killH.id].TmuxSession]
                ELSE NoKill
    /\ UNCHANGED <<tmux, worktrees, onDisk, spawnH, sweepH, removed,
                   nameVars, stopVars, daemonVars>>

\* ProcessManager.Remove after the unlock: tmux kill-session -t <session>
KillSession(ok) ==
    /\ killH.pc = "session"
    /\ tmux' = IF ok THEN tmux \ {killH.session} ELSE tmux
    /\ killH' = NoKill
    /\ UNCHANGED <<slotTable, worktrees, onDisk, spawnH, sweepH, removed,
                   nameVars, stopVars, daemonVars>>

\* a session ends outside the daemon (tmux kill-session by hand)
SessionDies(name) ==
    /\ name \in tmux
    /\ tmux' = tmux \ {name}
    /\ UNCHANGED <<slotTable, worktrees, onDisk, spawnH, killH, sweepH,
                   removed, nameVars, stopVars, daemonVars>>

\* a sweep that takes every directory, the live ones too
CleanupAll(runningAgentIDs, failing) ==
    /\ onDisk' = onDisk \cap failing
    /\ worktrees' = Without(worktrees, onDisk \ failing)
    /\ removed' = [i \in 1..Cardinality(onDisk \ failing) |->
                      worktreePath(SortedIds(onDisk \ failing)[i])]

\* WorktreeManager.Cleanup under m.mu, over os.ReadDir (sorted by name).
\* failing: the directories os.RemoveAll cannot remove.
Cleanup(runningAgentIDs, failing) ==
    LET gone == (onDisk \ runningAgentIDs) \ failing
    IN /\ onDisk' = onDisk \ gone
       /\ worktrees' = Without(worktrees, gone)
       /\ removed' = [i \in 1..Cardinality(gone) |->
                         worktreePath(SortedIds(gone)[i])]

\* CleanupWorktrees without agent_id: s.processes.ListRunning().  The
\* handler does not read the all field of its request.
SweepList(all) ==
    /\ server.accepting
    /\ sweepH.pc = "idle"
    /\ sweepH' = [pc |-> "cleanup", running |-> DOMAIN slotTable,
                  failed |-> {}, all |-> all]
    /\ UNCHANGED <<slotTable, tmux, worktrees, onDisk, spawnH, killH,
                   removed, nameVars, stopVars, daemonVars>>

\* CleanupWorktrees: s.worktrees.Cleanup(runningAgents)
SweepCleanup(failing) ==
    /\ sweepH.pc = "cleanup"
    /\ Cleanup(sweepH.running, failing)
    /\ sweepH' = [sweepH EXCEPT !.pc = "idle",
                                !.failed = (onDisk \ sweepH.running) \cap failing]
    /\ UNCHANGED <<slotTable, tmux, spawnH, killH, nameVars, stopVars,
                   daemonVars>>

\* ------------------------------------------------------------------ Server.Stop
\* close(s.shutdown): the WatchEvents streams and the bridge loops return
StopClose ==
    /\ server.pc = "serving"
    /\ server' = [server EXCEPT !.pc = "killAll", !.shutdown = TRUE]
    /\ stopLog' = Append(stopLog, "streams")
    /\ UNCHANGED <<fleetVars, nameVars, daemonVars>>

\* Stop is called again, by the signal handler of main or by the goroutine
\* of another Shutdown RPC, while the daemon still runs: close of the
\* closed s.shutdown panics and the process dies where it is
StopAgain ==
    /\ server.shutdown
    /\ server.pc \notin {"stopped", "panic"}
    /\ server' = [server EXCEPT !.pc = "panic"]
    /\ UNCHANGED <<stopLog, fleetVars, nameVars, daemonVars>>

\* KillAll under m.mu: the ids of the slots there are now
StopKillAll ==
    /\ server.pc = "killAll"
    /\ server' = [server EXCEPT !.pc = "kill", !.ids = DOMAIN slotTable]
    /\ stopLog' = Append(stopLog, "sessions")
    /\ UNCHANGED <<fleetVars, nameVars, daemonVars>>

\* KillAll: m.Remove(id) for the next id; ok: tmux kill-session worked
StopRemove(id, ok) ==
    /\ server.pc = "kill"
    /\ id \in server.ids
    /\ RemoveEntry(id)
    /\ tmux' = IF id \in DOMAIN slotTable /\ ok
               THEN tmux \ {slotTable[id].TmuxSession} ELSE tmux
    /\ server' = [server EXCEPT !.ids = @ \ {id}]
    /\ UNCHANGED <<worktrees, onDisk, spawnH, killH, sweepH, removed,
                   stopLog, nameVars, daemonVars>>

\* s.worktrees.Cleanup(nil) once KillAll has returned
StopCleanup(failing) ==
    /\ server.pc = "kill"
    /\ server.ids = {}
    /\ Cleanup({}, failing)
    /\ server' = [server EXCEPT !.pc = "grpc"]
    /\ stopLog' = Append(stopLog, "sweep")
    /\ UNCHANGED <<slotTable, tmux, spawnH, killH, sweepH, nameVars,
                   daemonVars>>

\* GracefulStop: the listener is closed, no RPC is accepted any more
StopGrpc ==
    /\ server.pc = "grpc"
    /\ server' = [server EXCEPT !.pc = "drain", !.accepting = FALSE]
    /\ stopLog' = Append(stopLog, "rpc")
    /\ UNCHANGED <<fleetVars, nameVars, daemonVars>>

\* GracefulStop returns when the RPCs in progress have returned; then
\* s.store.Close()
StopStore ==
    /\ server.pc = "drain"
    /\ spawnH = NoSpawn /\ killH = NoKill /\ sweepH = NoSweep
    /\ server' = [server EXCEPT !.pc = "socket", !.storeOpen = FALSE]
    /\ stopLog' = Append(stopLog, "store")
    /\ UNCHANGED <<fleetVars, nameVars, daemonVars>>

\* os.Remove(s.socketPath)
StopSocket ==
    /\ server.pc = "socket"
    /\ server' = [server EXCEPT !.pc = "stopped", !.socket = FALSE]
    /\ stopLog' = Append(stopLog, "socket")
    /\ UNCHANGED <<fleetVars, nameVars, daemonVars>>

\* ------------------------------------------------------------------ text typed into sessions
\* Texts are sequences of characters; a fixed piece of text without a
\* newline and without two spaces in a row stands as one element.
MaxLen == 3
Chars == {"x", " ", "\n"}
Texts == UNION {[1..n -> Chars] : n \in 0..MaxLen}
PathLists == {<<>>, <<"/p">>, <<"/p", "/q">>}

RECURSIVE NewlinesToSpaces(_)
\* strings.ReplaceAll(s, "\n", " ")
NewlinesToSpaces(s) ==
    IF s = <<>> THEN <<>>
    ELSE <<IF Head(s) = "\n" THEN " " ELSE Head(s)>> \o NewlinesToSpaces(Tail(s))

\* the second replacement left out
KeepSpaces(s) == s

RECURSIVE CollapseSpaces(_)
\* strings.ReplaceAll(s, "  ", " "): the pairs of spaces met from the left,
\* without overlap, become one space each
CollapseSpaces(s) ==
    IF Len(s) < 2 THEN s
    ELSE IF s[1] = " " /\ s[2] = " "
    THEN <<" ">> \o CollapseSpaces(SubSeq(s, 3, Len(s)))
    ELSE <<s[1]>> \o CollapseSpaces(Tail(s))

RECURSIVE Join(_)
\* strings.Join(scopePaths, ", ")
Join(paths) ==
    IF paths = <<>> THEN <<>>
    ELSE IF Len(paths) = 1 THEN <<paths[1]>>
    ELSE <<paths[1], ",", " ">> \o Join(Tail(paths))

\* fmt.Sprintf("[Task ID: %s]", taskID)
Preamble(taskID) == <<"[Task ID:", " ", ToString(taskID), "]">>

\* prompt := "[Task ID: %s]\n\n%s", then "%s\n\nScope/files: %s"
Prompt(taskID, description, scopePaths) ==
    LET prompt == Preamble(taskID) \o <<"\n", "\n">> \o description
    IN IF Len(scopePaths) > 0
       THEN prompt \o <<"\n", "\n", "Scope/files:", " ">> \o Join(scopePaths)
       ELSE prompt

\* singleLinePrompt
SingleLine(s) == CollapseSpaces(NewlinesToSpaces(s))

\* the deliveries of ExecuteTask: send-keys -l <text>, then send-keys Enter;
\* the first command that fails ends the call
PromptKeys(taskID, description, scopePaths, textOk, enterOk) ==
    IF ~textOk THEN <<>>
    ELSE <<SingleLine(Prompt(taskID, description, scopePaths))>>
         \o (IF enterOk THEN <<"Enter">> ELSE <<>>)

\* ExecuteTask from the prompt on, for the task and slot of goroutine k
SendKeys(k, description, scopePaths, textOk, enterOk) ==
    /\ ExecRelease(k, textOk /\ enterOk)
    /\ keys' = PromptKeys(k[1], description, scopePaths, textOk, enterOk)
    /\ keysIn' = <<k[1], description, scopePaths>>
    /\ UNCHANGED <<busVars, hostVars, sentOk, paneVars, lockVars>>

\* fmt.Sprintf("User response to your question:\n\n%s", response)
Response(body) == <<"User response to your question:", "\n", "\n">> \o body

\* checkTaskForResponse up to the paste, for a reply with this body: what
\* send-keys -l delivered, nothing when the call did not get that far
ReplyPaste(ok, sent, body) ==
    /\ PollFetch(ok, sent)
    /\ keys' = IF poll'.pc = "enter" THEN <<SingleLine(Response(body))>>
               ELSE <<>>
    /\ keysIn' = IF poll'.pc = "enter" THEN <<poll.list[poll.i].id, body>>
                 ELSE <<>>
    /\ UNCHANGED <<busVars, hostVars, sentOk, paneVars, lockVars>>

\* the two Enter keys of deliverResponseToAgent; the second is sent when the
\* first worked
ReplyEnter(first, second) ==
    /\ PollEnter(first /\ second)
    /\ keys' = keys \o (IF first THEN <<"Enter">> ELSE <<>>)
                    \o (IF first /\ second THEN <<"Enter">> ELSE <<>>)
    /\ UNCHANGED <<busVars, hostVars, sentOk, keysIn, paneVars, lockVars>>

\* ------------------------------------------------------------------ respawn
\* the variables RespawnInPane and the panes leave alone
aboveSessions == <<now, store, slotVars, routerVars, cancel, emitted,
                   bridgeVars, busVars, sentOk, keyVars, nameVars, stopVars,
                   slotTable, worktrees, onDisk, spawnH, killH, sweepH,
                   removed, lockVars>>

\* a RespawnInPane that does not ask whether the pane is dead
RespawnAnyPane(agentID, hasOk, deadOk, respawnOk) ==
    LET session == tmuxSession(agentID)
        err == IF agentID \notin pool THEN "not found"
               ELSE IF ~(session \in tmux /\ hasOk) THEN "session not found"
               ELSE IF ~respawnOk THEN "failed to respawn"
               ELSE ""
    IN /\ respawn' = [id |-> agentID, err |-> err,
                      ran |-> err \in {"", "failed to respawn"}]
       /\ paneDead' = IF err = "" THEN paneDead \ {session} ELSE paneDead
       /\ UNCHANGED <<tmux, aboveSessions>>

\* RespawnInPane.  hasOk: tmux has-session can work; deadOk: tmux
\* display-message can work; respawnOk: tmux respawn-pane works.
RespawnInPane(agentID, hasOk, deadOk, respawnOk) ==
    LET session == tmuxSession(agentID)
        \* IsTmuxPaneDead
        dead == deadOk /\ session \in paneDead
        err == IF agentID \notin pool THEN "not found"
               ELSE IF ~(session \in tmux /\ hasOk) THEN "session not found"
               ELSE IF ~dead THEN "pane is still running"
               ELSE IF ~respawnOk THEN "failed to respawn"
               ELSE ""
    IN /\ respawn' = [id |-> agentID, err |-> err,
                      ran |-> err \in {"", "failed to respawn"}]
       /\ paneDead' = IF err = "" THEN paneDead \ {session} ELSE paneDead
       /\ UNCHANGED <<tmux, aboveSessions>>

\* CreateSlot with its tmux new-session
SlotWithSession(id) ==
    /\ CreateSlot(id)
    /\ tmux' = tmux \cup {tmuxSession(id)}
    /\ paneDead' = paneDead \ {tmuxSession(id)}
    /\ UNCHANGED <<busVars, sentOk, keyVars, respawn, nameVars, stopVars,
                   slotTable, worktrees, onDisk, spawnH, killH, sweepH,
                   removed, lockVars>>

\* the CLI of a session exits; remain-on-exit keeps the pane
PaneDies(name) ==
    /\ name \in tmux
    /\ name \notin paneDead
    /\ paneDead' = paneDead \cup {name}
    /\ UNCHANGED <<tmux, respawn, aboveSessions>>

\* ------------------------------------------------------------------ locks
\* The methods of TaskRouter and ProcessManager, one step for every lock
\* they take and every critical section they run.  routerMu is r.mu, held
\* by a goroutine of Threads.
aboveLocks == <<now, store, route, ppt, exec, dispatched, cancel, emitted,
                bridgeVars, busVars, hostVars, sentOk, keyVars, paneVars>>

LockOps == {"submit", "route", "ppt", "listIdle", "exec", "remove", "create"}

\* the ids of the slots from startIdx on, as FindAvailableAgent visits them
FindOrder(P, last) ==
    LET ids == SortedIds(P)
        n == Cardinality(P)
        hit == {i \in 1..n : ids[i] = last}
        startIdx == IF last # NoSlot /\ hit # {}
                    THEN ((Min(hit) - 1) + 1) % n
                    ELSE 0
    IN [j \in 1..n |-> ids[((startIdx + j - 1) % n) + 1]]

\* a goroutine is started: SubmitTask, routeTask, ProcessPendingTasks (one
\* of the callbacks spawned), ListIdle, ExecuteTask, Remove or CreateSlot
Start(i, op, id) ==
    /\ th[i].op = "none"
    /\ op = "ppt" => callbacks > 0
    /\ callbacks' = IF op = "ppt" THEN callbacks - 1 ELSE callbacks
    /\ th' = [th EXCEPT ![i] =
                [op |-> op,
                 pc |-> IF op \in {"submit", "ppt"} THEN "routerLock"
                        ELSE IF op \in {"listIdle", "exec"} THEN "mapRLock"
                        ELSE "mapLock",
                 slot |-> IF op \in {"exec", "remove", "create"} THEN id
                          ELSE NoSlot,
                 k |-> 0, ids |-> <<>>]]
    /\ UNCHANGED <<routerMu, mapMu, slotMu, slotVars, aboveLocks>>

\* r.mu.Lock() of SubmitTask and of ProcessPendingTasks; pending: there are
\* pending tasks to dispatch
RouterLock(i, pending) ==
    /\ th[i].pc = "routerLock"
    /\ routerMu = 0
    /\ routerMu' = i
    /\ th' = [th EXCEPT ![i].pc = IF th[i].op = "ppt" /\ pending
                                  THEN "mapLock" ELSE "routerUnlock"]
    /\ UNCHANGED <<mapMu, slotMu, slotVars, callbacks, aboveLocks>>

\* the deferred r.mu.Unlock()
RouterUnlock(i) ==
    /\ th[i].pc = "routerUnlock"
    /\ routerMu' = 0
    /\ th' = [th EXCEPT ![i] = NoThread]
    /\ UNCHANGED <<mapMu, slotMu, slotVars, callbacks, aboveLocks>>

\* m.mu.Lock() of FindAvailableAgent, Remove and CreateSlot
MapLock(i) ==
    /\ th[i].pc = "mapLock"
    /\ mapMu.w = 0 /\ mapMu.r = {}
    /\ mapMu' = [mapMu EXCEPT !.w = i]
    /\ th' = [th EXCEPT ![i] =
                IF th[i].op = "remove" THEN [@ EXCEPT !.pc = "delete"]
                ELSE IF th[i].op = "create" THEN [@ EXCEPT !.pc = "insert"]
                ELSE IF pool = {}
                THEN [@ EXCEPT !.pc = "mapUnlock", !.slot = NoSlot]
                ELSE [@ EXCEPT !.pc = "slotLock", !.k = 1,
                               !.ids = FindOrder(pool, lastAssigned)]]
    /\ UNCHANGED <<routerMu, slotMu, slotVars, callbacks, aboveLocks>>

\* m.mu.RLock() of ListIdle and of the lookup of ExecuteTask
MapRLock(i) ==
    /\ th[i].pc = "mapRLock"
    /\ mapMu.w = 0
    /\ mapMu' = [mapMu EXCEPT !.r = @ \cup {i}]
    /\ th' = [th EXCEPT ![i] =
                IF th[i].op = "exec" THEN [@ EXCEPT !.pc = "lookup"]
                ELSE IF pool = {} THEN [@ EXCEPT !.pc = "listed"]
                ELSE [@ EXCEPT !.pc = "slotLock", !.k = 1,
                               !.ids = SortedIds(pool)]]
    /\ UNCHANGED <<routerMu, slotMu, slotVars, callbacks, aboveLocks>>

\* the slot whose lock goroutine i takes next
NextSlot(i) == IF th[i].op = "exec" THEN th[i].slot ELSE th[i].ids[th[i].k]

\* slot.mu.Lock() of FindAvailableAgent, ListIdle and ExecuteTask
SlotLock(i) ==
    /\ th[i].pc \in {"slotLock", "relLock"}
    /\ slotMu[NextSlot(i)] = 0
    /\ slotMu' = [slotMu EXCEPT ![NextSlot(i)] = i]
    /\ th' = [th EXCEPT ![i].pc =
                IF th[i].pc = "relLock" THEN "release"
                ELSE IF th[i].op = "exec" THEN "acquire"
                ELSE "slotCheck"]
    /\ UNCHANGED <<routerMu, mapMu, slotVars, callbacks, aboveLocks>>

\* a loop of FindAvailableAgent that leaves a busy slot locked
FindCheckKeepsLock(i) ==
    /\ th[i].op \in {"route", "ppt"}
    /\ th[i].pc = "slotCheck"
    /\ LET s == NextSlot(i) IN
        IF agents[s].Status = AgentStatusIdle
        THEN /\ lastAssigned' = s
             /\ slotMu' = [slotMu EXCEPT ![s] = 0]
             /\ th' = [th EXCEPT ![i].pc = "mapUnlock", ![i].slot = s]
        ELSE /\ th' = [th EXCEPT ![i] =
                         IF th[i].k < Len(th[i].ids)
                         THEN [@ EXCEPT !.pc = "slotLock", !.k = @ + 1]
                         ELSE [@ EXCEPT !.pc = "mapUnlock", !.slot = NoSlot]]
             /\ UNCHANGED <<lastAssigned, slotMu>>
    /\ UNCHANGED <<routerMu, mapMu, agents, pool, spawned, callbacks,
                   aboveLocks>>

\* the loop of FindAvailableAgent under slot.mu: an idle slot is returned,
\* a busy one is unlocked and the next is tried
FindCheck(i) ==
    /\ th[i].op \in {"route", "ppt"}
    /\ th[i].pc = "slotCheck"
    /\ LET s == NextSlot(i) IN
        /\ slotMu' = [slotMu EXCEPT ![s] = 0]
        /\ IF agents[s].Status = AgentStatusIdle
           THEN /\ lastAssigned' = s
                /\ th' = [th EXCEPT ![i].pc = "mapUnlock", ![i].slot = s]
           ELSE /\ th' = [th EXCEPT ![i] =
                            IF th[i].k < Len(th[i].ids)
                            THEN [@ EXCEPT !.pc = "slotLock", !.k = @ + 1]
                            ELSE [@ EXCEPT !.pc = "mapUnlock",
                                           !.slot = NoSlot]]
                /\ UNCHANGED lastAssigned
    /\ UNCHANGED <<routerMu, mapMu, agents, pool, spawned, callbacks,
                   aboveLocks>>

\* the loop of ListIdle under slot.mu
ListCheck(i) ==
    /\ th[i].op = "listIdle"
    /\ th[i].pc = "slotCheck"
    /\ slotMu' = [slotMu EXCEPT ![NextSlot(i)] = 0]
    /\ th' = [th EXCEPT ![i] =
                IF th[i].k < Len(th[i].ids)
                THEN [@ EXCEPT !.pc = "slotLock", !.k = @ + 1]
                ELSE [@ EXCEPT !.pc = "listed"]]
    /\ UNCHANGED <<routerMu, mapMu, slotVars, callbacks, aboveLocks>>

\* the deferred m.mu.Unlock() of FindAvailableAgent.  routeTask goes on to
\* ExecuteTask for the slot found; ProcessPendingTasks goes on to its next
\* pending task (more) or returns.
MapUnlock(i, more) ==
    /\ th[i].pc = "mapUnlock"
    /\ mapMu' = [mapMu EXCEPT !.w = 0]
    /\ th' = [th EXCEPT ![i] =
                IF th[i].op = "ppt"
                THEN [@ EXCEPT !.pc = IF more THEN "mapLock"
                                      ELSE "routerUnlock"]
                ELSE IF th[i].slot # NoSlot
                THEN [@ EXCEPT !.op = "exec", !.pc = "mapRLock"]
                ELSE NoThread]
    /\ UNCHANGED <<routerMu, slotMu, slotVars, callbacks, aboveLocks>>

\* m.mu.RUnlock(): of ListIdle; of ExecuteTask after the lookup (an unknown
\* agent returns); of the deferred function, which then runs go callback()
MapRUnlock(i) ==
    /\ th[i].pc \in {"listed", "lookup", "callback"}
    /\ mapMu' = [mapMu EXCEPT !.r = @ \ {i}]
    /\ th' = [th EXCEPT ![i] =
                IF th[i].pc = "lookup" /\ th[i].slot \in pool
                THEN [@ EXCEPT !.pc = "slotLock"]
                ELSE NoThread]
    /\ callbacks' = IF th[i].pc = "callback" THEN goCallback(callbacks)
                    ELSE callbacks
    /\ UNCHANGED <<routerMu, slotMu, slotVars, aboveLocks>>

\* ExecuteTask under slot.mu: a busy slot returns, an idle one is taken
\* (the id of the task plays no part here)
ExecSet(i) ==
    /\ th[i].pc = "acquire"
    /\ slotMu' = [slotMu EXCEPT ![th[i].slot] = 0]
    /\ IF agents[th[i].slot].Status = AgentStatusBusy
       THEN /\ th' = [th EXCEPT ![i] = NoThread]
            /\ UNCHANGED agents
       ELSE /\ th' = [th EXCEPT ![i].pc = "send"]
            /\ agents' = [agents EXCEPT ![th[i].slot] = AcquireSlot(@, 1)]
    /\ UNCHANGED <<routerMu, mapMu, pool, spawned, lastAssigned, callbacks,
                   aboveLocks>>

\* ExecuteTask: the tmux commands, with no lock held
ExecSent(i) ==
    /\ th[i].pc = "send"
    /\ th' = [th EXCEPT ![i].pc = "relLock"]
    /\ UNCHANGED <<routerMu, mapMu, slotMu, slotVars, callbacks, aboveLocks>>

\* the deferred function under slot.mu
ExecReset(i) ==
    /\ th[i].pc = "release"
    /\ slotMu' = [slotMu EXCEPT ![th[i].slot] = 0]
    /\ agents' = [agents EXCEPT ![th[i].slot] = ReleaseSlot(@)]
    /\ th' = [th EXCEPT ![i].pc = "cbRLock"]
    /\ UNCHANGED <<routerMu, mapMu, pool, spawned, lastAssigned, callbacks,
                   aboveLocks>>

\* the deferred function: m.mu.RLock() to read onAgentAvailable
CallbackRLock(i) ==
    /\ th[i].pc = "cbRLock"
    /\ mapMu.w = 0
    /\ mapMu' = [mapMu EXCEPT !.r = @ \cup {i}]
    /\ th' = [th EXCEPT ![i].pc = "callback"]
    /\ UNCHANGED <<routerMu, slotMu, slotVars, callbacks, aboveLocks>>

\* Remove under m.mu, and its m.mu.Unlock()
Delete(i) ==
    /\ th[i].pc = "delete"
    /\ pool' = pool \ {th[i].slot}
    /\ mapMu' = [mapMu EXCEPT !.w = 0]
    /\ th' = [th EXCEPT ![i] = NoThread]
    /\ UNCHANGED <<routerMu, slotMu, agents, spawned, lastAssigned,
                   callbacks, aboveLocks>>

\* CreateSlot under m.mu, with its go callback(), and the deferred
\* m.mu.Unlock(); an agent id that is taken returns an error
Insert(i) ==
    /\ th[i].pc = "insert"
    /\ LET id == th[i].slot IN
        IF id \in spawned
        THEN UNCHANGED <<agents, pool, spawned, callbacks>>
        ELSE /\ agents' = [agents EXCEPT ![id] =
                             [Status |-> AgentStatusIdle,
                              CurrentTask |-> NoTask]]
             /\ pool' = pool \cup {id}
             /\ spawned' = spawned \cup {id}
             /\ callbacks' = goCallback(callbacks)
    /\ mapMu' = [mapMu EXCEPT !.w = 0]
    /\ th' = [th EXCEPT ![i] = NoThread]
    /\ UNCHANGED <<routerMu, slotMu, lastAssigned, aboveLocks>>

\* a step of a goroutine that is running
Running(i) ==
    \/ \E pending \in BOOLEAN : RouterLock(i, pending)
    \/ RouterUnlock(i)
    \/ MapLock(i)
    \/ MapRLock(i)
    \/ SlotLock(i)
    \/ FindCheck(i)
    \/ ListCheck(i)
    \/ \E more \in BOOLEAN : MapUnlock(i, more)
    \/ MapRUnlock(i)
    \/ ExecSet(i)
    \/ ExecSent(i)
    \/ ExecReset(i)
    \/ CallbackRLock(i)
    \/ Delete(i)
    \/ Insert(i)

NextLocks ==
    \/ \E i \in Threads : \E op \in LockOps : \E id \in 1..RouterSlots :
           Start(i, op, id)
    \/ \E i \in Threads : \E pending \in BOOLEAN : RouterLock(i, pending)
    \/ \E i \in Threads : RouterUnlock(i)
    \/ \E i \in Threads : MapLock(i)
    \/ \E i \in Threads : MapRLock(i)
    \/ \E i \in Threads : SlotLock(i)
    \/ \E i \in Threads : FindCheck(i)
    \/ \E i \in Threads : ListCheck(i)
    \/ \E i \in Threads : \E more \in BOOLEAN : MapUnlock(i, more)
    \/ \E i \in Threads : MapRUnlock(i)
    \/ \E i \in Threads : ExecSet(i)
    \/ \E i \in Threads : ExecSent(i)
    \/ \E i \in Threads : ExecReset(i)
    \/ \E i \in Threads : CallbackRLock(i)
    \/ \E i \in Threads : Delete(i)
    \/ \E i \in Threads : Insert(i)

\* ------------------------------------------------------------------ event bus
WatcherIds == 1..MaxWatchers

\* NewServer: an empty producer channel and no watchers
BusIdle ==
    /\ eventCh = <<>>
    /\ watchers = <<>>
    /\ everWatched = {}
    /\ typeFilter = [w \in WatcherIds |-> {}]
    /\ published = <<>>
    /\ received = [w \in WatcherIds |-> <<>>]

\* a step of a specification that leaves out the bus, and with it the
\* managers of names, working copies and the listener
NoBus == UNCHANGED <<busVars, hostVars, sideVars>>

\* what a bus step leaves alone
aboveBus == <<now, store, slotVars, routerVars, cancel, bridgeVars, hostVars,
              sideVars>>

\* a send that puts the value at the head of the channel
sendFront(ch, cap, x) == IF Len(ch) < cap THEN <<x>> \o ch ELSE ch

\* select { case ch <- x: default: }: the value is queued when the channel
\* has room and is dropped when it is full
trySend(ch, cap, x) == IF Len(ch) < cap THEN Append(ch, x) ELSE ch

\* the end of emitTaskEvent: the event the step has built, if any, is
\* offered to the producer channel.  n numbers the events in publish order.
sendEvent ==
    /\ published' = IF emitted' = NoEvent THEN published
                    ELSE Append(published, emitted')
    /\ eventCh' = IF emitted' = NoEvent THEN eventCh
                  ELSE trySend(eventCh, EventCap,
                               [n |-> Len(published) + 1, ev |-> emitted'])
    /\ UNCHANGED <<watchers, everWatched, typeFilter, received, hostVars,
                   sideVars>>

\* a component publishes ev (emitTaskEvent and its likes, taken alone)
Publish(ev) ==
    /\ Len(published) < MaxEvents
    /\ emitted' = ev
    /\ sendEvent
    /\ UNCHANGED aboveBus

\* broadcastEvents: one event leaves the producer channel and is offered to
\* the channel of every watcher, under s.mu.RLock
broadcastEvents ==
    /\ server.fanout
    /\ eventCh # <<>>
    /\ eventCh' = Tail(eventCh)
    /\ watchers' = [w \in DOMAIN watchers |->
                       trySend(watchers[w], WatchCap, Head(eventCh))]
    /\ emitted' = NoEvent
    /\ UNCHANGED <<aboveBus, everWatched, typeFilter, published, received>>

\* broadcastEvents, case <-s.shutdown: the goroutine returns
broadcastReturns ==
    /\ server.fanout
    /\ server.shutdown
    /\ server' = [server EXCEPT !.fanout = FALSE]
    /\ UNCHANGED <<stopLog, nameVars, fleetVars, daemonVars>>

\* the event types a request may filter on
EventTypes == {"created", "started"}

\* WatchEvents: a new watcher id and channel are registered; f is
\* req.TypeFilter
WatchEvents(w, f) ==
    /\ server.accepting
    /\ w \notin everWatched
    /\ watchers' = [v \in DOMAIN watchers \cup {w} |->
                       IF v = w THEN <<>> ELSE watchers[v]]
    /\ everWatched' = everWatched \cup {w}
    /\ typeFilter' = [typeFilter EXCEPT ![w] = f]
    /\ emitted' = NoEvent
    /\ UNCHANGED <<aboveBus, eventCh, published, received>>

\* a WatchEvents loop that sends every event it takes from its channel
WatchRecvUnfiltered(w, ok) ==
    /\ w \in DOMAIN watchers
    /\ watchers[w] # <<>>
    /\ IF ok
       THEN /\ received' = [received EXCEPT ![w] = Append(@, Head(watchers[w]))]
            /\ watchers' = [watchers EXCEPT ![w] = Tail(@)]
       ELSE /\ watchers' = [v \in DOMAIN watchers \ {w} |-> watchers[v]]
            /\ UNCHANGED received
    /\ emitted' = NoEvent
    /\ UNCHANGED <<aboveBus, eventCh, everWatched, typeFilter, published>>

\* WatchEvents, case event := <-watchCh: an event whose type the filter
\* leaves out is skipped, any other goes to the stream; when stream.Send
\* fails the handler returns and its defer drops the watcher
WatchRecv(w, ok) ==
    /\ w \in DOMAIN watchers
    /\ watchers[w] # <<>>
    /\ IF typeFilter[w] # {} /\ Head(watchers[w]).ev[1] \notin typeFilter[w]
       THEN /\ watchers' = [watchers EXCEPT ![w] = Tail(@)]
            /\ UNCHANGED received
       ELSE IF ok
       THEN /\ received' = [received EXCEPT ![w] = Append(@, Head(watchers[w]))]
            /\ watchers' = [watchers EXCEPT ![w] = Tail(@)]
       ELSE /\ watchers' = [v \in DOMAIN watchers \ {w} |-> watchers[v]]
            /\ UNCHANGED received
    /\ emitted' = NoEvent
    /\ UNCHANGED <<aboveBus, eventCh, everWatched, typeFilter, published>>

\* WatchEvents, case <-stream.Context().Done(): the defer drops the watcher
WatchDone(w) ==
    /\ w \in DOMAIN watchers
    /\ watchers' = [v \in DOMAIN watchers \ {w} |-> watchers[v]]
    /\ emitted' = NoEvent
    /\ UNCHANGED <<aboveBus, eventCh, everWatched, typeFilter, published,
                   received>>

\* WatchEvents, case <-s.shutdown: the defer drops the watcher
WatchShutdown(w) ==
    /\ server.shutdown
    /\ w \in DOMAIN watchers
    /\ watchers' = [v \in DOMAIN watchers \ {w} |-> watchers[v]]
    /\ emitted' = NoEvent
    /\ UNCHANGED <<aboveBus, eventCh, everWatched, typeFilter, published,
                   received>>

\* ------------------------------------------------------------------ clock
Tick ==
    /\ now < MaxTime
    /\ now' = now + 1
    /\ emitted' = NoEvent
    /\ UNCHANGED <<store, slotVars, routerVars, cancel, bridgeVars>>

vars == <<daemonVars, hostVars>>

\* ------------------------------------------------------------------ the daemon
\* the bridge before any task has a tracker issue
BridgeIdle ==
    /\ comments = [t \in DOMAIN route |-> <<>>]
    /\ pane = [s \in SlotIds |-> "work"]
    /\ lastContent = [s \in SlotIds |-> ""]
    /\ lastChangeTime = [s \in SlotIds |-> -1]
    /\ mon = NoMon
    /\ poll = NoPoll
    /\ closed = [t \in DOMAIN route |-> FALSE]
    /\ injected = [t \in DOMAIN route |-> [r \in 1..MaxComments |-> 0]]
    /\ written = [t \in DOMAIN route |-> <<>>]
    /\ asked = [t \in DOMAIN route |-> 0]

\* NewTaskRouter, NewProcessManager over the stored tasks rows; T: the ids
\* of these and of the tasks submitted later
InitWith(T, rows) ==
    /\ now = 0
    /\ store = rows
    /\ agents = [s \in SlotIds |->
                    [Status |-> AgentStatusIdle, CurrentTask |-> NoTask]]
    /\ pool = {}
    /\ spawned = {}
    /\ lastAssigned = NoSlot
    /\ routerMu = 0
    /\ route = [t \in T |-> NoRoute]
    /\ ppt = [w \in PPTWorkers |-> NoPPT]
    /\ callbacks = 0
    /\ exec = [k \in T \X Origins |-> NoExec]
    /\ cancel = NoCancel
    /\ emitted = NoEvent
    /\ dispatched = [t \in T |-> 0]
    /\ BridgeIdle
    /\ BusIdle
    /\ HostIdle

Init == InitWith(TaskIds, <<>>)

\* the goroutines of ProcessPendingTasks
Pending ==
    \/ \E w \in DOMAIN ppt : PPTLock(w) /\ NoBus
    \/ \E w \in DOMAIN ppt : PPTFind(w) /\ NoBus
    \/ \E w \in DOMAIN ppt : PPTAssign(w) /\ NoBus
    \/ \E w \in DOMAIN ppt : PPTStart(w) /\ NoBus

\* the goroutines executeOnSpawnedAgent starts
Execute ==
    \/ \E k \in DOMAIN exec : ExecAcquire(k) /\ NoBus
    \/ \E k \in DOMAIN exec : \E sent \in BOOLEAN : ExecRelease(k, sent)
           /\ NoBus
    \/ \E k \in DOMAIN exec : ExecFailRead(k) /\ NoBus
    \/ \E k \in DOMAIN exec : ExecFailWrite(k) /\ NoBus

\* SubmitTask and the routeTask goroutines
Submit ==
    \/ SubmitTask(FALSE) /\ NoBus
    \/ \E t \in DOMAIN route : routeFind(t) /\ NoBus
    \/ \E t \in DOMAIN route : routeAssign(t) /\ NoBus
    \/ \E t \in DOMAIN route : routeStart(t) /\ NoBus

Next ==
    \/ Submit
    \/ Pending
    \/ Execute
    \/ \E t \in DOMAIN route : CancelRead(t) /\ NoBus
    \/ CancelWrite(TRUE) /\ NoBus
    \/ \E id \in 1..RouterSlots : CreateSlot(id) /\ NoBus
    \/ \E id \in 1..RouterSlots : Remove(id) /\ NoBus

Spec == Init /\ [][Next]_vars

\* ------------------------------------------------------------------ dispatch results
\* ExecuteTask returns to the goroutine of executeOnSpawnedAgent: with nil
\* the task is noted as sent
Returned(k, sent) ==
    /\ ExecRelease(k, sent)
    /\ sentOk' = IF sent THEN sentOk \cup {k[1]} ELSE sentOk
    /\ UNCHANGED <<busVars, hostVars, keyVars, paneVars, lockVars>>

\* the daemon of Next with the results of ExecuteTask noted
NextDispatch ==
    \/ Submit
    \/ Pending
    \/ \E k \in DOMAIN exec : ExecAcquire(k) /\ NoBus
    \/ \E k \in DOMAIN exec : \E sent \in BOOLEAN : Returned(k, sent)
    \/ \E k \in DOMAIN exec : ExecFailRead(k) /\ NoBus
    \/ \E k \in DOMAIN exec : ExecFailWrite(k) /\ NoBus
    \/ \E t \in DOMAIN route : CancelRead(t) /\ NoBus
    \/ CancelWrite(TRUE) /\ NoBus
    \/ \E id \in 1..RouterSlots : CreateSlot(id) /\ NoBus

SpecDispatch == Init /\ [][NextDispatch]_vars

\* ------------------------------------------------------------------ prompts
\* Tasks with any description and scope paths are submitted and dispatched
\* at once; the tmux commands may fail.
NextPrompt ==
    \/ Submit
    \/ \E k \in DOMAIN exec : ExecAcquire(k) /\ NoBus
    \/ \E k \in DOMAIN exec : \E description \in Texts :
       \E scopePaths \in PathLists : \E textOk, enterOk \in BOOLEAN :
           SendKeys(k, description, scopePaths, textOk, enterOk)
    \/ \E k \in DOMAIN exec : ExecFailRead(k) /\ NoBus
    \/ \E k \in DOMAIN exec : ExecFailWrite(k) /\ NoBus
    \/ \E id \in 1..RouterSlots : CreateSlot(id) /\ NoBus

SpecPrompt == Init /\ [][NextPrompt]_vars

\* ------------------------------------------------------------------ the slot manager
\* the slot manager under SubmitTask's immediate dispatch alone
InitSlots == InitWith(1..SlotTasks, <<>>)

NextSlots ==
    \/ Submit
    \/ Execute
    \/ \E id \in SlotIds : CreateSlot(id) /\ NoBus
    \/ \E id \in SlotIds : Remove(id) /\ NoBus

SpecSlots == InitSlots /\ [][NextSlots]_vars

\* ------------------------------------------------------------------ the queue
\* Every spawned slot is busy sending the prompt of its first task, and
\* MaxQueued tasks submitted since have found no idle slot.
QueueTasks == 1..(QueueSlots + MaxQueued)
FirstTasks == 1..QueueSlots
QueuedTasks == QueueTasks \ FirstTasks

InitQueue ==
    /\ now = 0
    /\ store = [t \in QueueTasks |->
                  IF t \in FirstTasks
                  THEN [NewTaskRecord(FALSE) EXCEPT !.Status = "in_progress",
                                                    !.AssignedTo = t]
                  ELSE NewTaskRecord(FALSE)]
    /\ agents = [s \in SlotIds |->
                    IF s \in FirstTasks
                    THEN [Status |-> AgentStatusBusy, CurrentTask |-> s]
                    ELSE [Status |-> AgentStatusIdle, CurrentTask |-> NoTask]]
    /\ pool = 1..QueueSlots
    /\ spawned = 1..QueueSlots
    /\ lastAssigned = QueueSlots
    /\ routerMu = 0
    /\ route = [t \in QueueTasks |-> NoRoute]
    /\ ppt = [w \in PPTWorkers |-> NoPPT]
    /\ callbacks = 0
    /\ exec = [k \in QueueTasks \X Origins |->
                 IF k[1] \in FirstTasks /\ k[2] = "route"
                 THEN [pc |-> "send", slot |-> k[1], err |-> "",
                       rec |-> NilTask]
                 ELSE NoExec]
    /\ cancel = NoCancel
    /\ emitted = NoEvent
    /\ dispatched = [t \in QueueTasks |-> 0]
    /\ BridgeIdle
    /\ BusIdle
    /\ HostIdle

NextQueue ==
    \/ Pending
    \/ Execute
    \/ \E t \in DOMAIN route : CancelRead(t) /\ NoBus
    \/ CancelWrite(TRUE) /\ NoBus

SpecQueue == InitQueue /\ [][NextQueue]_vars

\* ------------------------------------------------------------------ CancelTask alone
\* Two stored tasks, each in any status of the schema and updated at second
\* 0, and one id the store does not know; the store may refuse the update.
StoredTask(st) ==
    [NewTaskRecord(FALSE) EXCEPT
        !.Status = st, !.AssignedTo = IF st = "pending" THEN NoSlot ELSE 1]

InitCancel ==
    \E st1, st2 \in AllStatuses :
        InitWith(1..3, <<StoredTask(st1), StoredTask(st2)>>)

NextCancel ==
    \/ \E t \in DOMAIN route : CancelRead(t) /\ NoBus
    \/ \E ok \in BOOLEAN : CancelWrite(ok) /\ NoBus
    \/ Tick /\ NoBus

SpecCancel == InitCancel /\ [][NextCancel]_vars

\* ------------------------------------------------------------------ the input bridge
\* One task with a tracker issue is in_progress on slot 1, whose session
\* shows an agent at work; the watchers run, the agent prints, people comment
\* on the issue (which stays open), and every gh, tmux and store call may
\* fail.
BridgeTasks == {1}

InitBridge ==
    /\ now = 0
    /\ store = <<[NewTaskRecord(TRUE) EXCEPT !.Status = "in_progress",
                                             !.AssignedTo = 1]>>
    /\ agents = [s \in SlotIds |->
                    [Status |-> AgentStatusIdle, CurrentTask |-> NoTask]]
    /\ pool = {1}
    /\ spawned = {1}
    /\ lastAssigned = 1
    /\ routerMu = 0
    /\ route = [t \in BridgeTasks |-> NoRoute]
    /\ ppt = [w \in PPTWorkers |-> NoPPT]
    /\ callbacks = 0
    /\ exec = [k \in BridgeTasks \X Origins |-> NoExec]
    /\ cancel = NoCancel
    /\ emitted = NoEvent
    /\ dispatched = [t \in BridgeTasks |-> 0]
    /\ BridgeIdle
    /\ BusIdle
    /\ HostIdle

NextBridge ==
    \/ \E s \in pool : \E captured, posted \in BOOLEAN :
           MonCheck(s, captured, posted) /\ NoBus
    \/ \E ok \in BOOLEAN : MonSet(ok) /\ NoBus
    \/ \E ok \in BOOLEAN : PollStart(ok) /\ NoBus
    \/ \E ok, sent \in BOOLEAN : PollFetch(ok, sent) /\ NoBus
    \/ \E ok \in BOOLEAN : PollEnter(ok) /\ NoBus
    \/ \E ok \in BOOLEAN : PollClear(ok) /\ NoBus
    \/ \E ok \in BOOLEAN : PollClosedList(ok) /\ NoBus
    \/ \E ok \in BOOLEAN : checkTaskForClosedIssue(ok) /\ NoBus
    \/ \E t \in DOMAIN store : HumanReplies(t) /\ NoBus
    \/ \E s \in pool : \E c \in PaneKinds : AgentPrints(s, c) /\ NoBus
    \/ Tick /\ NoBus

SpecBridge == InitBridge /\ [][NextBridge]_vars

\* ------------------------------------------------------------------ issue closing
\* Three tasks are in_progress, each on a slot of its own; tasks 1 and 2 came
\* from tracker issues, task 3 did not.  The poller runs, people close
\* issues, tasks are cancelled, and every gh and store call may fail.
CloseTasks == {1, 2, 3}
CloseGitHub == {1, 2}

InitClose ==
    /\ now = 0
    /\ store = [t \in CloseTasks |->
                  [NewTaskRecord(t \in CloseGitHub) EXCEPT
                      !.Status = "in_progress", !.AssignedTo = t]]
    /\ agents = [s \in SlotIds |->
                    [Status |-> AgentStatusIdle, CurrentTask |-> NoTask]]
    /\ pool = CloseTasks \cap SlotIds
    /\ spawned = CloseTasks \cap SlotIds
    /\ lastAssigned = 1
    /\ routerMu = 0
    /\ route = [t \in CloseTasks |-> NoRoute]
    /\ ppt = [w \in PPTWorkers |-> NoPPT]
    /\ callbacks = 0
    /\ exec = [k \in CloseTasks \X Origins |-> NoExec]
    /\ cancel = NoCancel
    /\ emitted = NoEvent
    /\ dispatched = [t \in CloseTasks |-> 0]
    /\ BridgeIdle
    /\ BusIdle
    /\ HostIdle

NextClose ==
    \/ \E ok \in BOOLEAN : PollStart(ok) /\ NoBus
    \/ \E ok \in BOOLEAN : PollClosedList(ok) /\ NoBus
    \/ \E ok \in BOOLEAN : checkTaskForClosedIssue(ok) /\ NoBus
    \/ \E t \in DOMAIN store : CloseIssue(t) /\ NoBus
    \/ \E t \in DOMAIN route : CancelRead(t) /\ NoBus
    \/ CancelWrite(TRUE) /\ NoBus
    \/ Tick /\ NoBus

SpecClose == InitClose /\ [][NextClose]_vars

\* ------------------------------------------------------------------ store writers
\* The task of InitBridge right after its dispatch by routeTask: slot 1 is
\* acquired and the ExecuteTask goroutine is about to send the prompt.  The
\* watchers run beside the goroutine's failure handler, CancelTask and the
\* closing of the issue, each of which writes the task's row.
InitWaiting ==
    /\ now = 0
    /\ store = <<[NewTaskRecord(TRUE) EXCEPT !.Status = "in_progress",
                                             !.AssignedTo = 1]>>
    /\ agents = [s \in SlotIds |->
                    IF s = 1
                    THEN [Status |-> AgentStatusBusy, CurrentTask |-> 1]
                    ELSE [Status |-> AgentStatusIdle, CurrentTask |-> NoTask]]
    /\ pool = {1}
    /\ spawned = {1}
    /\ lastAssigned = 1
    /\ routerMu = 0
    /\ route = [t \in BridgeTasks |-> NoRoute]
    /\ ppt = [w \in PPTWorkers |-> NoPPT]
    /\ callbacks = 0
    /\ exec = [k \in BridgeTasks \X Origins |->
                  IF k = <<1, "route">>
                  THEN [pc |-> "send", slot |-> 1, err |-> "", rec |-> NilTask]
                  ELSE NoExec]
    /\ cancel = NoCancel
    /\ emitted = NoEvent
    /\ dispatched = [t \in BridgeTasks |-> 0]
    /\ BridgeIdle
    /\ BusIdle
    /\ HostIdle

\* the stretch of time and the comments of the issue this is followed for
WaitingHorizon == 3
WaitingComments == 2

NextWaiting ==
    \/ \E s \in pool : MonCheck(s, TRUE, TRUE) /\ NoBus
    \/ MonSet(TRUE) /\ NoBus
    \/ PollStart(TRUE) /\ NoBus
    \/ PollFetch(TRUE, TRUE) /\ NoBus
    \/ PollEnter(TRUE) /\ NoBus
    \/ PollClear(TRUE) /\ NoBus
    \/ PollClosedList(TRUE) /\ NoBus
    \/ checkTaskForClosedIssue(TRUE) /\ NoBus
    \/ \E t \in DOMAIN store :
           Len(comments[t]) < WaitingComments /\ HumanReplies(t) /\ NoBus
    \/ \E s \in pool : AgentPrints(s, "ask") /\ NoBus
    \/ \E k \in DOMAIN exec : ExecRelease(k, FALSE) /\ NoBus
    \/ \E k \in DOMAIN exec : ExecFailRead(k) /\ NoBus
    \/ \E k \in DOMAIN exec : ExecFailWrite(k) /\ NoBus
    \/ \E t \in DOMAIN route : CancelRead(t) /\ NoBus
    \/ CancelWrite(TRUE) /\ NoBus
    \/ now < WaitingHorizon /\ Tick /\ NoBus

SpecWaiting == InitWaiting /\ [][NextWaiting]_vars

\* ------------------------------------------------------------------ dead panes
\* Slots come with their sessions and execute tasks; the CLI of a session
\* may exit, a session may end, and RespawnInPane is called for any agent
\* id at any time, with any tmux command failing.
NextRespawn ==
    \/ Submit
    \/ \E k \in DOMAIN exec : ExecAcquire(k) /\ NoBus
    \/ \E k \in DOMAIN exec : ExecRelease(k, TRUE) /\ NoBus
    \/ \E id \in 1..RouterSlots : SlotWithSession(id)
    \/ \E name \in tmux : PaneDies(name)
    \/ \E name \in tmux : SessionDies(name)
    \/ \E agentID \in SlotIds : \E hasOk, deadOk, respawnOk \in BOOLEAN :
           RespawnInPane(agentID, hasOk, deadOk, respawnOk)

SpecRespawn == Init /\ [][NextRespawn]_vars

\* ------------------------------------------------------------------ wake-ups
MaxWake == 2         \* tasks submitted in one behaviour of SpecWake
WakeSlots == 1       \* slots created in one behaviour of SpecWake

\* the steps of one goroutine: routeTask of task t, a pass of
\* ProcessPendingTasks, the execution k
RouteStep(t) == (routeFind(t) \/ routeAssign(t) \/ routeStart(t)) /\ NoBus
PPTStep(w) ==
    (PPTLock(w) \/ PPTFind(w) \/ PPTAssign(w) \/ PPTStart(w)) /\ NoBus
ExecStep(k) ==
    /\ \/ ExecAcquire(k)
       \/ ExecRelease(k, TRUE)
       \/ ExecFailRead(k)
       \/ ExecFailWrite(k)
    /\ NoBus

NextWake ==
    \/ Submit
    \/ Pending
    \/ \E k \in DOMAIN exec : ExecAcquire(k) /\ NoBus
    \/ \E k \in DOMAIN exec : ExecRelease(k, TRUE) /\ NoBus
    \/ \E k \in DOMAIN exec : ExecFailRead(k) /\ NoBus
    \/ \E k \in DOMAIN exec : ExecFailWrite(k) /\ NoBus
    \/ \E id \in 1..WakeSlots : CreateSlot(id) /\ NoBus

\* no task is cancelled, no slot removed and every tmux command succeeds;
\* every goroutine that can take a step does so in the end
SpecWake ==
    /\ InitWith(1..MaxWake, <<>>)
    /\ [][NextWake]_vars
    /\ \A t \in 1..MaxWake : WF_vars(RouteStep(t))
    /\ \A w \in PPTWorkers : WF_vars(PPTStep(w))
    /\ \A k \in (1..MaxWake) \X Origins : WF_vars(ExecStep(k))

\* ------------------------------------------------------------------ lock order
SpecLocks == Init /\ [][NextLocks]_vars

\* ------------------------------------------------------------------ replies
\* The task of InitWaiting: its agent asks, people answer with any text, and
\* the poller types the answers into the session; every command of the
\* poller may fail.
NextReply ==
    \/ \E s \in pool : MonCheck(s, TRUE, TRUE) /\ NoBus
    \/ MonSet(TRUE) /\ NoBus
    \/ PollStart(TRUE) /\ NoBus
    \/ \E ok, sent \in BOOLEAN : \E body \in Texts : ReplyPaste(ok, sent, body)
    \/ \E first, second \in BOOLEAN : ReplyEnter(first, second)
    \/ \E ok \in BOOLEAN : PollClear(ok) /\ NoBus
    \/ PollClosedList(TRUE) /\ NoBus
    \/ checkTaskForClosedIssue(TRUE) /\ NoBus
    \/ \E t \in DOMAIN store :
           Len(comments[t]) < WaitingComments /\ HumanReplies(t) /\ NoBus
    \/ \E s \in pool : AgentPrints(s, "ask") /\ NoBus
    \/ \E k \in DOMAIN exec : ExecRelease(k, TRUE) /\ NoBus
    \/ now < WaitingHorizon /\ Tick /\ NoBus

SpecReply == InitWaiting /\ [][NextReply]_vars

\* ------------------------------------------------------------------ the bus alone
\* Components publish task events at any time while watchers come, read and
\* go, and the fan-out goroutine runs.
BusEvents == {<<"created", 1>>, <<"started", 1>>}

NextBus ==
    \/ \E ev \in BusEvents : Publish(ev)
    \/ broadcastEvents
    \/ \E w \in WatcherIds : WatchEvents(w, {})
    \/ \E w \in WatcherIds : \E ok \in BOOLEAN : WatchRecv(w, ok)
    \/ \E w \in WatcherIds : WatchDone(w)

SpecBus == Init /\ [][NextBus]_vars

MaxWatched == 3      \* events published in one behaviour of SpecWatch

\* watchers subscribe with and without a filter while events are published
\* and the server is shut down
NextWatch ==
    \/ \E ev \in BusEvents : Len(published) < MaxWatched /\ Publish(ev)
    \/ broadcastEvents
    \/ broadcastReturns
    \/ \E w \in WatcherIds : \E f \in SUBSET EventTypes : WatchEvents(w, f)
    \/ \E w \in WatcherIds : \E ok \in BOOLEAN : WatchRecv(w, ok)
    \/ \E w \in WatcherIds : WatchShutdown(w)
    \/ \E w \in WatcherIds : WatchDone(w)
    \/ StopClose

\* the select of a WatchEvents loop does not pass over a closed s.shutdown
\* for ever
SpecWatch ==
    /\ Init
    /\ [][NextWatch]_vars
    /\ \A w \in WatcherIds : WF_vars(WatchShutdown(w))

\* ------------------------------------------------------------------ router and bus
\* The router's handlers and goroutines publish to the producer channel,
\* which the fan-out goroutine empties; the slot manager publishes the
\* lifecycle events of its agents.  SubmitTask is taken in its two steps.
AgentEvent == <<"agent", NoTask>>

\* emitAgentEvent: the slot manager publishes a lifecycle event
AgentPublishes ==
    /\ Cardinality({i \in DOMAIN published : published[i] = AgentEvent})
          < MaxAgentEvents
    /\ Publish(AgentEvent)

NextEvents ==
    \/ \E ok \in BOOLEAN : SubmitCreate(FALSE, ok) /\ sendEvent
    \/ SubmitEmit /\ sendEvent
    \/ \E t \in DOMAIN route : routeFind(t) /\ sendEvent
    \/ \E t \in DOMAIN route : routeAssign(t) /\ sendEvent
    \/ \E t \in DOMAIN route : routeStart(t) /\ sendEvent
    \/ \E w \in DOMAIN ppt : PPTLock(w) /\ sendEvent
    \/ \E w \in DOMAIN ppt : PPTFind(w) /\ sendEvent
    \/ \E w \in DOMAIN ppt : PPTAssign(w) /\ sendEvent
    \/ \E w \in DOMAIN ppt : PPTStart(w) /\ sendEvent
    \/ \E k \in DOMAIN exec : ExecAcquire(k) /\ sendEvent
    \/ \E k \in DOMAIN exec : \E sent \in BOOLEAN : ExecRelease(k, sent)
           /\ sendEvent
    \/ \E k \in DOMAIN exec : ExecFailRead(k) /\ sendEvent
    \/ \E k \in DOMAIN exec : ExecFailWrite(k) /\ sendEvent
    \/ \E id \in 1..RouterSlots : CreateSlot(id) /\ sendEvent
    \/ AgentPublishes
    \/ broadcastEvents

SpecEvents == Init /\ [][NextEvents]_vars

\* ================================================================== properties
\* C1.  Terminal statuses are absorbing: no step changes the status of a
\* task that is completed, failed or cancelled.
TerminalAbsorbing ==
    [][\A t \in DOMAIN store :
          store[t].Status \in TerminalStatuses
              => store'[t].Status = store[t].Status]_vars

\* C2.  Every task that is in_progress, waiting_input, accepted or offered
\* has a non-empty assigned slot.
ActiveHasSlot ==
    \A t \in DOMAIN store :
        store[t].Status \in ActiveStatuses => store[t].AssignedTo # NoSlot

\* an execution dispatched by ProcessPendingTasks that has not released a slot
Held(t) ==
    LET e == exec[<<t, "ppt">>] IN
    \/ e.pc \in {"acquire", "send"}
    \/ e.pc \in {"failRead", "failWrite"} /\ e.err \in {"is busy", "not found"}

\* C3.  Queue when full: once exactly one of the busy slots has been
\* released, and until a slot is released again, at most one of the queued
\* tasks has been dispatched (the others remain pending).
QueueOneTaskPerRelease ==
    LET busyFirst == {t \in FirstTasks : exec[<<t, "route">>].pc = "send"}
        gone == {t \in QueuedTasks : dispatched[t] > 0}
    IN (/\ Cardinality(busyFirst) = Cardinality(FirstTasks) - 1
        /\ \A t \in gone : Held(t))
       => Cardinality(gone) <= 1

SlotStatusMatchesTask ==
    \A s \in spawned :
        /\ agents[s].Status \in {AgentStatusIdle, AgentStatusBusy}
        /\ agents[s].Status = AgentStatusBusy <=> agents[s].CurrentTask # NoTask

\* a slot is busy with a task, another has executed one and was released, a
\* third was removed
SlotBusyAndRemoved ==
    /\ \E s \in pool : agents[s].Status = AgentStatusBusy
    /\ \E t \in DOMAIN store :
        /\ store[t].Status = "in_progress"
        /\ route[t].pc = "none" /\ exec[<<t, "route">>].pc = "none"
        /\ store[t].AssignedTo \in pool
        /\ agents[store[t].AssignedTo].Status = AgentStatusIdle
    /\ spawned \ pool # {}

\* the slot a round-robin scan returns: the first idle identifier after
\* last, else the first idle identifier; NoSlot when none is idle
RoundRobin(P, A, last) ==
    LET idle == {s \in P : A[s].Status = AgentStatusIdle}
        after == {s \in idle : s > last}
    IN IF idle = {} THEN NoSlot
       ELSE IF last \in P /\ after # {} THEN Min(after)
       ELSE Min(idle)

\* C6.  FindAvailableAgent returns the round-robin choice and records it as
\* last assigned; it returns nothing, and leaves last assigned unchanged,
\* exactly when no slot is idle.
FindIsRoundRobin ==
    [][\A t \in DOMAIN route :
          (route[t].pc = "find" /\ route'[t].pc # "find") =>
              LET r == route'[t].slot IN
              /\ r = RoundRobin(pool, agents, lastAssigned)
              /\ r = NoSlot <=>
                     ~ \E s \in pool : agents[s].Status = AgentStatusIdle
              /\ r # NoSlot => agents[r].Status = AgentStatusIdle
              /\ lastAssigned' = IF r = NoSlot THEN lastAssigned ELSE r]_vars

\* a scan has returned a slot although a slot with a smaller identifier is
\* idle: it started after the slot assigned last
PassedOverIdleSlot ==
    \E t \in DOMAIN route :
        /\ route[t].pc = "assign"
        /\ route[t].slot = lastAssigned
        /\ \E s \in pool : s < lastAssigned /\ agents[s].Status = AgentStatusIdle

\* C7 as the specification states it.  CancelTask on a task in any
\* non-terminal status goes on to cancel it.
CancelAnyNonTerminal ==
    [][\A t \in DOMAIN store :
          (CancelRead(t) /\ store[t].Status \notin TerminalStatuses)
              => cancel'.pc = "write"]_vars

\* C7.  CancelTask on a pending or in_progress task, when the store takes
\* the update, sets the status to cancelled and the updated timestamp to the
\* current time, emits a cancelled event and returns the task; on an
\* offered, accepted or waiting_input task it returns an error and changes
\* nothing.
CancelPendingOrInProgress ==
    [][/\ \A t \in DOMAIN store :
            (CancelRead(t) /\ store[t].Status \in {"pending", "in_progress"})
                => cancel'.pc = "write" /\ cancel'.rec = store[t]
       /\ \A t \in DOMAIN store :
            (CancelRead(t) /\
             store[t].Status \in {"offered", "accepted", "waiting_input"})
                => /\ cancel'.pc = "idle"
                   /\ cancel'.ret =
                        <<"cannot cancel task in status", store[t].Status>>
                   /\ store' = store
                   /\ emitted' = NoEvent
       /\ CancelWrite(TRUE) =>
            /\ store'[cancel.task].Status = "cancelled"
            /\ store'[cancel.task].UpdatedAt = now
            /\ emitted' = <<"cancelled", cancel.task>>
            /\ cancel'.ret = <<"ok", "">>]_vars

\* a cancel has succeeded a second after the task was last updated
CancelledRefreshed ==
    /\ cancel.pc = "idle" /\ cancel.ret = <<"ok", "">>
    /\ store[cancel.task].Status = "cancelled"
    /\ store[cancel.task].UpdatedAt > 0
    /\ emitted = <<"cancelled", cancel.task>>

\* C8.  CancelTask on a completed, failed or cancelled task, or on an
\* unknown id, returns an error, leaves the store unchanged and emits no
\* event.
CancelRejected ==
    [][\A t \in DOMAIN route :
          (CancelRead(t) /\
           (GetTask(t) = NilTask \/ GetTask(t).Status \in TerminalStatuses))
              => /\ cancel'.pc = "idle"
                 /\ cancel'.ret[1] \in {"task not found",
                                        "cannot cancel task in status"}
                 /\ store' = store
                 /\ emitted' = NoEvent]_vars

\* a cancel of a completed task has returned the error
CancelRefusedTerminal ==
    /\ cancel.pc = "idle"
    /\ cancel.ret = <<"cannot cancel task in status", "completed">>
    /\ store[cancel.task].Status = "completed"
    /\ emitted = NoEvent

\* C9 as the specification states it.  The inbound loop never injects the
\* same reply into a session twice, and the values written to a task's
\* last-seen reply identifier are strictly increasing in comment order.
InjectedOnceAndIncreasing ==
    \A t \in DOMAIN written :
        /\ \A r \in DOMAIN injected[t] : injected[t][r] <= 1
        /\ \A i, j \in DOMAIN written[t] :
               i < j => written[t][i] < written[t][j]

\* C9.  For every task the values ClearTaskWaitingInput writes to its
\* last-seen reply identifier are strictly increasing in comment order, and
\* the inbound loop never injects a reply that is, or that precedes, a
\* value already written; this holds across repeated waiting_input episodes
\* and across ticks in which a delivery step or the store update fails (a
\* reply whose tick failed after the paste may be injected again).
WrittenIncreasingAndNotReinjected ==
    [][/\ \A t \in DOMAIN written :
             \A i, j \in DOMAIN written'[t] :
                 i < j => written'[t][i] < written'[t][j]
       /\ (poll.pc = "fetch" /\ poll'.pc = "enter") =>
             \A k \in DOMAIN written[poll.list[poll.i].id] :
                 written[poll.list[poll.i].id][k] < poll'.reply]_vars

\* C9 witness: a reply was injected twice because its first tick failed, and
\* a second waiting_input episode has had its reply written
SecondEpisodeAfterFailedTick ==
    \E t \in DOMAIN written :
        /\ Len(written[t]) = 2
        /\ \E r \in DOMAIN injected[t] : injected[t][r] = 2

\* the question comments of the daemon on the issue of t
QuestionComments(t) == {i \in DOMAIN comments[t] : comments[t][i].bot}

\* C10.  The outbound loop posts exactly one question comment per move of a
\* task from in_progress to waiting_input: once checkAgent has returned, the
\* issue holds as many question comments as the task has made such moves, and
\* one more while checkAgent is between the post and the store update.
OneQuestionPerTransition ==
    \A t \in DOMAIN store :
        Cardinality(QuestionComments(t)) =
            asked[t] + (IF mon.pc = "set" /\ mon.task = t THEN 1 ELSE 0)

\* C11.  Issue-close completion.  On a poll whose store listing succeeds,
\* every in_progress task with an external source is checked; a check whose
\* gh and store calls succeed moves the task to completed and emits a
\* completed event when the issue is reported CLOSED, and changes nothing
\* and emits nothing when it is not.
ClosedIssueCompletes ==
    [][/\ PollClosedList(TRUE) =>
            \A t \in DOMAIN store :
                (store[t].Status = "in_progress" /\ store[t].GitHub)
                    => /\ poll'.pc = "closed"
                       /\ \E i \in DOMAIN poll'.list : poll'.list[i].id = t
       /\ (poll.pc = "closed" /\ checkTaskForClosedIssue(TRUE)) =>
            LET t == poll.list[poll.i].id IN
            IF closed[t]
            THEN /\ store'[t].Status = "completed"
                 /\ emitted' = <<"completed", t>>
                 /\ \A u \in DOMAIN store \ {t} : store'[u] = store[u]
            ELSE store' = store /\ emitted' = NoEvent
       /\ (poll.pc = "closed" /\ poll'.pc = "idle") =>
            poll.i = Len(poll.list)]_vars

\* C11 witness: a poll has completed task 1, whose issue was closed, and has
\* gone past task 2, whose issue is open, leaving it in_progress
ClosedTaskCompletedOpenTaskKept ==
    /\ poll.pc = "idle"
    /\ closed[1] /\ store[1].Status = "completed"
    /\ ~closed[2] /\ store[2].Status = "in_progress"
    /\ store[3].Status = "in_progress"
    /\ emitted = NoEvent

\* every watcher's channel is full
AllWatchersFull ==
    \A w \in DOMAIN watchers : Len(watchers[w]) = WatchCap

\* C12.  Event publishing never blocks: a publish can always be taken, also
\* with the producer channel and every watcher's channel full, and so can
\* the fan-out whenever an event is in the producer channel; and what a
\* watcher has received is a subsequence of the published sequence: in
\* publish order, without repetition, each event as it was published.
PublishNeverBlocks ==
    /\ Len(published) < MaxEvents =>
          \A ev \in BusEvents : ENABLED Publish(ev)
    /\ eventCh # <<>> => ENABLED broadcastEvents
    /\ \A w \in WatcherIds :
          /\ \A i, j \in DOMAIN received[w] :
                i < j => received[w][i].n < received[w][j].n
          /\ \A i \in DOMAIN received[w] :
                /\ received[w][i].n \in DOMAIN published
                /\ received[w][i].ev = published[received[w][i].n]

\* C12 witness: an event was published while the producer channel and the
\* channel of every watcher were full, and it was dropped: it is in no
\* channel and no watcher has received it, while a watcher has received an
\* earlier event
PublishedWhileFull ==
    /\ Len(eventCh) = EventCap
    /\ DOMAIN watchers # {} /\ AllWatchersFull
    /\ published # <<>>
    /\ \A i \in DOMAIN eventCh : eventCh[i].n # Len(published)
    /\ \A w \in DOMAIN watchers :
          \A i \in DOMAIN watchers[w] : watchers[w][i].n # Len(published)
    /\ \A w \in WatcherIds :
          \A i \in DOMAIN received[w] : received[w][i].n # Len(published)
    /\ \E w \in DOMAIN watchers : received[w] # <<>>

\* ev has been published
Published(ev) == \E i \in DOMAIN published : published[i] = ev

\* C13.  For every task its created event is published before its started
\* event, whether the dispatch is made by the routeTask goroutine that
\* SubmitTask starts or by a concurrent ProcessPendingTasks.
CreatedBeforeStarted ==
    [][\A t \in DOMAIN route :
          emitted' = <<"started", t>> => Published(<<"created", t>>)]_vars

\* C13 witness: a task was dispatched both by its routeTask goroutine and by
\* a pass of ProcessPendingTasks, and each published a started event
StartedByBothPaths ==
    \E t \in DOMAIN store :
        /\ dispatched[t] = 1
        /\ exec[<<t, "route">>].pc # "none"
        /\ Cardinality({i \in DOMAIN published :
                           published[i] = <<"started", t>>}) = 2

\* C14 as the specification states it.  After every successful SubmitTask a
\* created event for the new task is in the event stream, and after every
\* dispatch a started event with the same task id, also when the producer
\* channel is full at that moment.
EmittedAlsoWhenFull ==
    [][\A t \in DOMAIN route :
          emitted' \in {<<"created", t>>, <<"started", t>>} =>
              \E i \in DOMAIN eventCh' :
                  eventCh'[i] = [n |-> Len(published'), ev |-> emitted']]_vars

\* C14.  Every successful SubmitTask hands a created event for the new task
\* to emitTaskEvent, and every dispatch a started event with the id of the
\* dispatched task; the event enters the producer channel when the channel
\* has room and is dropped, the call still returning, when it is full.
EmittedOrDropped ==
    [][/\ SubmitEmit => emitted' = <<"created", Len(store)>>
       /\ \A t \in DOMAIN route :
             routeStart(t) => emitted' = <<"started", t>>
       /\ \A w \in DOMAIN ppt :
             PPTStart(w) => emitted' = <<"started", ppt[w].list[ppt[w].i]>>
       /\ emitted' # NoEvent =>
             /\ published' = Append(published, emitted')
             /\ eventCh' =
                   IF Len(eventCh) < EventCap
                   THEN Append(eventCh, [n |-> Len(published) + 1,
                                         ev |-> emitted'])
                   ELSE eventCh]_vars

\* C14 witness: SubmitTask has just published the created event of a task
\* while the producer channel was full, and the event was dropped
CreatedDropped ==
    /\ emitted = <<"created", Len(store)>>
    /\ published[Len(published)] = emitted
    /\ Len(eventCh) = EventCap
    /\ \A i \in DOMAIN eventCh : eventCh[i].ev = AgentEvent


\* C15: a task whose status is waiting_input has a question text that is not
\* empty and a waiting-since time that is not zero, whatever the order of the
\* writes of the router, CancelTask, the monitor and the poller.
WaitingHasQuestion ==
    \A t \in DOMAIN store :
        store[t].Status = "waiting_input" =>
            /\ store[t].WaitingInputQuestion # ""
            /\ store[t].WaitingInputSince # 0

\* the task waits again after a writer has overwritten an earlier wait with
\* the row it had read before
WaitingAfterStaleWrite ==
    \E t \in DOMAIN store :
        /\ store[t].Status = "waiting_input"
        /\ asked[t] >= 1
        /\ \E i \in DOMAIN written[t] : TRUE
        /\ cancel.ret = <<"ok", "">>


\* ------------------------------------------------------------------ names
\* Names are generated for both kinds of agent, released when agents are
\* killed and marked used on recovery, in any order.
NextNames ==
    \/ \E a \in AgentTypes : GenerateName(a)
    \/ \E n \in AllNames : ReleaseName(n)
    \/ \E n \in AllNames : MarkUsed(n)

SpecNames == Init /\ [][NextNames]_vars

\* C16: the name GenerateName returns was not marked used when it was
\* called, also when the random attempts all hit used names and the name
\* with the numeric suffix is returned.
GeneratedNameWasFree == generated.free

\* every name of the claude lists, with and without suffix, is marked used
\* and GenerateName has just returned one with a suffix
FallbackTaken ==
    /\ generated.name \in SuffixedNames(AgentTypeClaude)
    /\ BaseNames(AgentTypeClaude) \subseteq usedNames


\* ------------------------------------------------------------------ the fleet
\* Agents are spawned with and without a working copy, killed, and the
\* orphans are swept, one handler of each kind at a time; every git and
\* tmux command may fail, and sessions may end on their own.
NextFleet ==
    \/ \E id \in HostIds : \E useWorktree, ok \in BOOLEAN :
           SpawnBegin(id, useWorktree, ok)
    \/ \E started \in BOOLEAN : SpawnSlot(started)
    \/ \E ok \in BOOLEAN : SpawnUndo(ok)
    \/ \E id \in HostIds : KillGet(id)
    \/ \E ok \in BOOLEAN : KillWorktree(ok)
    \/ KillRemove
    \/ \E ok \in BOOLEAN : KillSession(ok)
    \/ \E name \in tmux : SessionDies(name)
    \/ \E all \in BOOLEAN : SweepList(all)
    \/ \E failing \in SUBSET HostIds : SweepCleanup(failing)

SpecFleet == Init /\ [][NextFleet]_vars

\* agents are spawned while the server runs and while it is stopped
NextStop ==
    \/ \E id \in HostIds : \E useWorktree, ok \in BOOLEAN :
           SpawnBegin(id, useWorktree, ok)
    \/ \E started \in BOOLEAN : SpawnSlot(started)
    \/ \E ok \in BOOLEAN : SpawnUndo(ok)
    \/ StopClose
    \/ StopKillAll
    \/ \E id \in HostIds : \E ok \in BOOLEAN : StopRemove(id, ok)
    \/ \E failing \in SUBSET HostIds : StopCleanup(failing)
    \/ StopGrpc
    \/ StopStore
    \/ StopSocket

SpecStop == Init /\ [][NextStop]_vars

\* Stop is called more than once
NextStopTwice ==
    \/ NextStop
    \/ StopAgain

SpecStopTwice == Init /\ [][NextStopTwice]_vars

\* agents with generated names are spawned and killed, and the server stops
NextRemove ==
    \/ \E id \in HostIds : \E useWorktree, ok \in BOOLEAN :
           SpawnGenerated(id, useWorktree, ok)
    \/ \E started \in BOOLEAN : SpawnSlot(started)
    \/ \E ok \in BOOLEAN : SpawnUndo(ok)
    \/ \E id \in HostIds : KillGet(id)
    \/ \E ok \in BOOLEAN : KillWorktree(ok)
    \/ KillRemove
    \/ \E ok \in BOOLEAN : KillSession(ok)
    \/ StopClose
    \/ StopKillAll
    \/ \E id \in HostIds : \E ok \in BOOLEAN : StopRemove(id, ok)
    \/ \E failing \in SUBSET HostIds : StopCleanup(failing)
    \/ StopGrpc
    \/ StopStore
    \/ StopSocket

SpecRemove == Init /\ [][NextRemove]_vars

\* C17: two live slots never have the same session name, and two live
\* working copies never have the same path.
UniqueSessionsAndPaths ==
    /\ \A a, b \in DOMAIN slotTable :
           a # b => slotTable[a].TmuxSession # slotTable[b].TmuxSession
    /\ \A a, b \in DOMAIN worktrees :
           a # b => worktrees[a].Path # worktrees[b].Path

\* two slots are live in working copies of their own after a sweep has
\* removed an orphan
TwoSlotsAfterSweep ==
    /\ Cardinality(DOMAIN slotTable) >= 2
    /\ Cardinality(DOMAIN worktrees) >= 2
    /\ \A a \in DOMAIN slotTable : a \in DOMAIN worktrees
    /\ removed # <<>>

\* the step in which Cleanup runs for CleanupWorktrees
SweepStep == sweepH.pc = "cleanup" /\ sweepH'.pc = "idle"

\* the paths of a set of directories, as Cleanup lists them
PathsOf(D) == [i \in 1..Cardinality(D) |-> worktreePath(SortedIds(D)[i])]

\* C18 as stated: Cleanup(L) deletes every directory whose name is not in
\* L and no other, drops their entries from the map and returns their paths.
CleanupRemovesExactlyOrphans ==
    [][SweepStep =>
          LET L == sweepH.running
              orphans == onDisk \ L
          IN /\ onDisk' = onDisk \cap L
             /\ worktrees' = Without(worktrees, orphans)
             /\ removed' = PathsOf(orphans)]_vars

\* C18: Cleanup(L) deletes the directories whose name is not in L and that
\* os.RemoveAll can remove, and no other; it drops their entries from the
\* map, leaves the other entries as they are and returns their paths.
CleanupRemovesOrphansItCan ==
    [][SweepStep =>
          LET L == sweepH.running
              gone == (onDisk \ L) \ sweepH'.failed
          IN /\ sweepH'.failed \subseteq onDisk \ L
             /\ onDisk' = onDisk \ gone
             /\ onDisk \cap L \subseteq onDisk'
             /\ worktrees' = Without(worktrees, gone)
             /\ removed' = PathsOf(gone)]_vars

\* a sweep has removed the one orphan and left the directory of the live
\* slot where it was
OrphanSweptLiveKept ==
    /\ sweepH.pc = "idle"
    /\ Len(removed) = 1
    /\ sweepH.running # {}
    /\ sweepH.running \subseteq onDisk
    /\ sweepH.running \subseteq DOMAIN worktrees
    /\ \A d \in sweepH.running : removed[1] # worktreePath(d)

\* the order of the shutdown steps as the sequence is described
StopOrder == <<"rpc", "streams", "sessions", "sweep", "store", "socket">>

\* an RPC is accepted: its handler starts
RpcAccepted ==
    \/ spawnH.pc = "idle" /\ spawnH'.pc # "idle"
    \/ killH.pc = "idle" /\ killH'.pc # "idle"
    \/ sweepH.pc = "idle" /\ sweepH'.pc # "idle"

\* C19: Stop takes its steps in the order of StopOrder, and no RPC is
\* accepted once the sessions are being killed.
StopInOrder ==
    [][/\ \A i \in DOMAIN stopLog' : stopLog'[i] = StopOrder[i]
       /\ RpcAccepted => \A i \in DOMAIN stopLog : stopLog[i] # "sessions"]_vars

\* Stop always closes the listener after the sweep, never before the kills
RpcStoppedAfterSweep ==
    \A i, j \in DOMAIN stopLog :
        stopLog[i] = "sweep" /\ stopLog[j] = "rpc" => i < j

\* the server has stopped and a slot spawned during the shutdown is left
\* with its session
SlotLeftAfterStop ==
    /\ server.pc = "stopped"
    /\ \E a \in DOMAIN slotTable : slotTable[a].TmuxSession \in tmux

\* C20: a dispatch error of ExecuteTask moves the task to failed with the
\* error text and a failed event; once ExecuteTask has returned nil the
\* router leaves the task in_progress, and its status changes only by a
\* cancel, the closing of its issue or a detected question.
FailedOnErrorElseLeft ==
    [][/\ \A k \in DOMAIN exec :
              ExecFailWrite(k) =>
                  /\ store'[k[1]].Status = "failed"
                  /\ store'[k[1]].Error = exec[k].err
                  /\ emitted' = <<"failed", k[1]>>
       /\ \A t \in DOMAIN store :
              t \in sentOk /\ store[t].Status = "in_progress" =>
                  store'[t].Status \in
                      {"in_progress", "cancelled", "completed", "waiting_input"}
      ]_vars

\* the prompt of a task was sent to one slot and the task is failed for the
\* dispatch to another
SentAndFailed ==
    \E t \in DOMAIN store :
        /\ t \in sentOk
        /\ store[t].Status = "failed"

\* checkAgent of slot s has a question to post
AskReady(s) == ENABLED (MonCheck(s, TRUE, TRUE) /\ mon'.pc = "set")

\* C21: when gh fails (the question is not posted, the comments or the state
\* of the issue are not read) the row of the task, the comments and what the
\* loops remember of the agent stay as they were, so the next tick does the
\* same work; and no step of the two loops makes a task failed.
TrackerFailureChangesNothing ==
    [][/\ \A s \in pool :
              AskReady(s) /\ MonCheck(s, TRUE, FALSE) =>
                  UNCHANGED <<store, comments, monitorVars, pollerVars>>
       /\ (\E sent \in BOOLEAN : PollFetch(FALSE, sent)) =>
              UNCHANGED <<store, comments, monitorVars, injected, written>>
       /\ checkTaskForClosedIssue(FALSE) =>
              UNCHANGED <<store, comments, monitorVars, injected, written>>
       /\ \A t \in DOMAIN store :
              store'[t].Status = "failed" => store[t].Status = "failed"]_vars

\* the poller has gone past a waiting task whose issue has a reply that was
\* not injected, and the task waits as before
ReplyLeftForNextTick ==
    \E t \in DOMAIN store :
        /\ store[t].Status = "waiting_input"
        /\ poll.pc = "closedList"
        /\ newComment(comments[t], store[t]) # 0
        /\ store[t].AssignedTo \in pool
        /\ \A r \in 1..MaxComments : injected[t][r] = 0
        /\ written[t] = <<>>

\* a text without its spaces and newlines
RECURSIVE Squeeze(_)
Squeeze(s) ==
    IF s = <<>> THEN <<>>
    ELSE (IF Head(s) \in {" ", "\n"} THEN <<>> ELSE <<Head(s)>>)
         \o Squeeze(Tail(s))

\* the last call of ExecuteTask delivered its text and the Enter key
PromptTyped == keysIn # <<>> /\ Len(keysIn) = 3 /\ Len(keys) = 2

\* C22 as stated: the text is the prompt with each newline made one space
\* and nothing else changed, so two spaces stand where a blank line was.
PromptKeepsTwoSpaces ==
    PromptTyped =>
        /\ keys[2] = "Enter"
        /\ keys[1] = NewlinesToSpaces(Prompt(keysIn[1], keysIn[2], keysIn[3]))

\* C22: a dispatch types one text and one Enter.  The text has no newline,
\* starts with the preamble, and differs from the prompt in spaces and
\* newlines only; for a description of words with single spaces between
\* them, the preamble, the description and the scope stand one space apart.
PromptOnOneLine ==
    PromptTyped =>
        /\ keys[2] = "Enter"
        /\ \A i \in DOMAIN keys[1] : keys[1][i] # "\n"
        /\ SubSeq(keys[1], 1, 4) = Preamble(keysIn[1])
        /\ Squeeze(keys[1]) = Squeeze(Prompt(keysIn[1], keysIn[2], keysIn[3]))
        /\ keysIn[2] = <<"x", " ", "x">> /\ keysIn[3] = <<"/p">> =>
               keys[1] = Preamble(keysIn[1])
                         \o <<" ", "x", " ", "x", " ", "Scope/files:", " ", "/p">>

\* the description of the example was typed with its one scope path
ExamplePromptTyped ==
    /\ PromptTyped
    /\ keysIn[2] = <<"x", " ", "x">>
    /\ keysIn[3] = <<"/p">>

\* the last call that typed was deliverResponseToAgent and its text went out
ReplyTyped == Len(keysIn) = 2 /\ keys # <<>>

\* C23 as stated: the text is the header and the reply with each newline
\* made one space and nothing else changed.
ReplyKeepsTwoSpaces ==
    ReplyTyped => keys[1] = NewlinesToSpaces(Response(keysIn[2]))

\* the text of a reply that was typed
ReplyOnOneLine ==
    ReplyTyped =>
        /\ \A i \in DOMAIN keys[1] : keys[1][i] # "\n"
        /\ keys[1][1] = "User response to your question:"
        /\ Squeeze(keys[1]) = Squeeze(Response(keysIn[2]))
        /\ keysIn[2] = <<"x", " ", "x">> =>
               keys[1] = <<"User response to your question:", " ",
                           "x", " ", "x">>
        /\ Len(keys) <= 3
        /\ \A i \in 2..Len(keys) : keys[i] = "Enter"

\* C23: a reply is typed as one text without newlines, the header and the
\* reply one space apart when the reply is words with single spaces, then
\* at most two Enter keys; a task leaves waiting_input for in_progress only
\* when the text and both Enter keys went out, and then its LastCommentID
\* is the id of the reply that was typed.
ReplyTypedThenCleared ==
    [][/\ ReplyOnOneLine'
       /\ \A t \in DOMAIN store :
              store[t].Status = "waiting_input"
              /\ store'[t].Status = "in_progress" =>
                  /\ Len(keysIn) = 2 /\ keysIn[1] = t
                  /\ Len(keys) = 3
                  /\ poll.reply # 0
                  /\ injected[t][poll.reply] > 0
                  /\ store'[t].LastCommentID = poll.reply]_vars

\* the reply of the example went out with both Enter keys and the task is
\* in_progress again
ExampleReplyCleared ==
    /\ ReplyTyped
    /\ keysIn[2] = <<"x", " ", "x">>
    /\ Len(keys) = 3
    /\ store[keysIn[1]].Status = "in_progress"
    /\ store[keysIn[1]].LastCommentID # 0

\* C24 as stated: a CleanupWorktrees request with all set and no agent id,
\* none of whose removals fails, leaves no agent working copy on disk, the
\* ones of live slots included; without all it removes the orphans only.
CleanupAllRemovesAll ==
    [][SweepStep =>
          /\ sweepH.all /\ sweepH'.failed = {} => onDisk' = {}
          /\ ~sweepH.all => onDisk \ onDisk' \subseteq onDisk \ sweepH.running]_vars

\* a request with all set has left the working copy of a live slot
LiveCopyLeftByAll ==
    /\ sweepH.pc = "idle"
    /\ sweepH.all
    /\ sweepH.failed = {}
    /\ \E id \in DOMAIN slotTable : id \in sweepH.running /\ id \in onDisk

\* C25: WorktreeManager.Create for an agent id whose directory is there, or
\* without a repository, fails and changes neither the map of working
\* copies nor the disk, and the handler goes no further; a working copy is
\* created only where no directory was.
CreateFailureChangesNothing ==
    [][/\ \A id \in HostIds : \A ok \in BOOLEAN :
              SpawnBegin(id, TRUE, ok) /\ (id \in onDisk \/ ~ok) =>
                  UNCHANGED <<worktrees, onDisk, spawnH>>
       /\ spawnH.pc = "idle" /\ spawnH'.pc = "slot"
          /\ spawnH'.worktreePath # <<>> =>
              /\ spawnH'.id \notin onDisk
              /\ onDisk' = onDisk \cup {spawnH'.id}
              /\ spawnH'.id \in DOMAIN worktrees']_vars

\* the directory of an agent id was left on disk when its slot was killed,
\* and SpawnAgent can be called: Create for the id fails here
CreateMeetsDirectory ==
    \E id \in HostIds :
        /\ id \in onDisk
        /\ id \notin DOMAIN slotTable
        /\ tmuxSession(id) \notin tmux
        /\ ENABLED SpawnBegin(id, TRUE, TRUE)

\* C26 as stated: when a slot leaves the pool, by KillAgent or by the
\* KillAll of Server.Stop, its name is not marked used afterwards.
RemovedSlotNameFree ==
    [][\A id \in HostIds :
          id \in DOMAIN slotTable /\ id \notin DOMAIN slotTable' =>
              AgentName(id) \notin usedNames']_vars

\* KillAll has removed every slot, no handler runs, and the name of an
\* agent that is gone is still marked used
NameHeldAfterKillAll ==
    /\ server.pc = "grpc"
    /\ spawnH.pc = "idle" /\ killH.pc = "idle"
    /\ slotTable = <<>>
    /\ usedNames # {}

\* the part of C26 that holds: a slot KillAgent or KillAll removes is out of
\* the pool whether or not tmux kill-session works
RemovedSlotAbsent ==
    [][/\ killH.pc = "session" /\ killH'.pc = "idle" =>
              killH.id \notin DOMAIN slotTable'
       /\ server.pc = "kill" /\ server'.pc = "kill" =>
              \A id \in server.ids \ server'.ids : id \notin DOMAIN slotTable']_vars

\* a step of RespawnInPane
RespawnStep ==
    \E agentID \in SlotIds : \E hasOk, deadOk, respawnOk \in BOOLEAN :
        RespawnInPane(agentID, hasOk, deadOk, respawnOk)

\* C27: RespawnInPane returns nil only for a slot of the pool whose session
\* exists and whose pane is dead; for an unknown slot, a missing session or
\* a pane that is not dead it returns an error and does not run tmux
\* respawn-pane; it never changes the status or the current task of a slot.
RespawnOnlyDeadPane ==
    [][RespawnStep =>
          LET id == respawn'.id
              session == tmuxSession(id)
          IN /\ respawn'.err = "" =>
                    /\ id \in pool
                    /\ session \in tmux
                    /\ session \in paneDead
                    /\ respawn'.ran
             /\ id \notin pool \/ session \notin tmux \/ session \notin paneDead =>
                    /\ respawn'.err # ""
                    /\ ~respawn'.ran
                    /\ paneDead' = paneDead
             /\ agents' = agents
             /\ pool' = pool]_vars

\* the dead pane of a slot that is busy with a task was respawned
BusySlotRespawned ==
    /\ respawn.err = ""
    /\ respawn.id \in pool
    /\ agents[respawn.id].Status = AgentStatusBusy
    /\ agents[respawn.id].CurrentTask # NoTask
    /\ tmuxSession(respawn.id) \notin paneDead

\* the comments of the task checkTaskForResponse looks at that survive its
\* three tests, by their place in the list (1 is the oldest); the task is
\* the row ListTasksWaitingInput returned
Surviving ==
    LET t == poll.list[poll.i].id
        rec == poll.list[poll.i].rec
    IN {i \in 1..Len(comments[t]) :
           /\ comments[t][i].at >= rec.WaitingInputSince
           /\ ~comments[t][i].bot
           /\ i # rec.LastCommentID}

\* checkTaskForResponse has typed a reply into the session
DeliverStep == poll.pc = "fetch" /\ poll'.pc = "enter"

\* C28 as stated: the reply typed is the oldest surviving comment.
ReplyIsOldestSurviving ==
    [][DeliverStep =>
          /\ poll'.reply \in Surviving
          /\ \A i \in Surviving : poll'.reply <= i]_vars

\* C28: the reply typed is the newest surviving comment; when no comment
\* survives nothing is typed and the task's row is left as it is.
ReplyIsNewestSurviving ==
    [][/\ DeliverStep =>
              /\ poll'.reply \in Surviving
              /\ \A i \in Surviving : i <= poll'.reply
       /\ poll.pc = "fetch" /\ Surviving = {} =>
              /\ poll'.pc # "enter"
              /\ UNCHANGED <<store, injected, written>>]_vars

\* the newer of two surviving comments was typed
NewerOfTwoTyped ==
    /\ poll.pc = "enter"
    /\ \E i \in Surviving : i < poll.reply
    /\ injected[poll.list[poll.i].id][poll.reply] > 0
    /\ store[poll.list[poll.i].id].Status = "waiting_input"

\* the ExecuteTask calls that have acquired slot s and not yet released it
Holders(s) == {k \in DOMAIN exec : exec[k].pc = "send" /\ exec[k].slot = s}

\* C29: a slot has at most one ExecuteTask call that holds it, and the
\* holder found it idle and made it busy with its task; a call that finds
\* its slot busy returns "is busy" at once, without typing anything and
\* without changing the status or the current task of any slot.
AcquireIsExclusive ==
    [][/\ \A s \in SlotIds : Cardinality(Holders(s)') <= 1
       /\ \A k \in DOMAIN exec :
              exec[k].pc = "acquire" /\ exec'[k] # exec[k] =>
                  LET s == exec[k].slot
                  IN /\ s \in pool /\ agents[s].Status = AgentStatusBusy =>
                            /\ exec'[k].pc = "failRead"
                            /\ exec'[k].err = "is busy"
                            /\ UNCHANGED <<agents, keys>>
                     /\ exec'[k].pc = "send" =>
                            /\ s \in pool
                            /\ agents[s].Status = AgentStatusIdle
                            /\ agents'[s].Status = AgentStatusBusy
                            /\ agents'[s].CurrentTask = k[1]]_vars

\* a call has found its slot busy while another call holds the slot
BusyWhileHeld ==
    \E k \in DOMAIN exec :
        /\ exec[k].pc = "failRead"
        /\ exec[k].err = "is busy"
        /\ Holders(exec[k].slot) # {}
        /\ agents[exec[k].slot].Status = AgentStatusBusy

\* C30: when an ExecuteTask call that has acquired its slot returns, with
\* nil or with the error of a tmux command, the slot is idle with no current
\* task and one more callback goroutine has been started (callbacks counts
\* them up to MaxCallbacks).
ReleasedOnReturn ==
    [][\A k \in DOMAIN exec :
          exec[k].pc = "send" /\ exec'[k].pc # "send" =>
              LET s == exec[k].slot
              IN /\ agents[s].Status = AgentStatusBusy
                 /\ agents'[s].Status = AgentStatusIdle
                 /\ agents'[s].CurrentTask = NoTask
                 /\ callbacks' = IF callbacks < MaxCallbacks
                                 THEN callbacks + 1 ELSE callbacks
                 /\ exec'[k].pc \in {"none", "failRead"}]_vars

\* an ExecuteTask call has returned an error of tmux after it had acquired
\* the only slot there is: the slot is idle again and a second callback
\* goroutine waits beside the one CreateSlot started
ReleasedAfterFailure ==
    \E k \in DOMAIN exec :
        /\ exec[k].pc = "failRead"
        /\ exec[k].err = "failed to send"
        /\ Cardinality(spawned) = 1
        /\ agents[exec[k].slot].Status = AgentStatusIdle
        /\ agents[exec[k].slot].CurrentTask = NoTask
        /\ callbacks = 2

\* checkAgent has posted a question for task t
PostStep(t) ==
    /\ Len(comments'[t]) = Len(comments[t]) + 1
    /\ comments'[t][Len(comments'[t])].bot

\* C31: a question is posted only on a tick of a slot whose capture is the
\* content recorded before and at least IdleThreshold after the change
\* recorded last, and that tick records nothing; a tick whose capture is
\* not the recorded content records the capture and the time and posts
\* nothing.
PostOnlyWhenIdle ==
    [][/\ \A t \in DOMAIN comments :
              PostStep(t) =>
                  \E s \in pool :
                      /\ mon'.slot = s /\ mon'.task = t
                      /\ pane[s] = lastContent[s]
                      /\ lastChangeTime[s] # -1
                      /\ now - lastChangeTime[s] >= IdleThreshold
                      /\ UNCHANGED <<lastContent, lastChangeTime>>
       /\ \A s \in SlotIds :
              mon.pc = "idle" /\ lastContent'[s] # lastContent[s] =>
                  /\ lastContent'[s] = pane[s]
                  /\ lastChangeTime'[s] = now
                  /\ UNCHANGED <<comments, store, mon>>]_vars

\* a question was posted for a slot whose tracking had been reset before:
\* the tick after the reset recorded the capture, a later one posted
PostedAgainAfterReset ==
    /\ mon.pc = "set"
    /\ pane[mon.slot] = lastContent[mon.slot]
    /\ now - lastChangeTime[mon.slot] >= IdleThreshold
    /\ asked[mon.task] > 0

\* goroutine i holds m.mu, as writer or as reader
HoldsMap(i) == mapMu.w = i \/ i \in mapMu.r

\* goroutine i holds the lock of a slot
HoldsSlot(i) == \E s \in SlotIds : slotMu[s] = i

\* C32 as stated: no goroutine holds the lock of a slot while it holds the
\* lock of the slot map.
NoSlotLockUnderMapLock ==
    \A i \in Threads : ~(HoldsMap(i) /\ HoldsSlot(i))

\* FindAvailableAgent holds m.mu and the lock of a slot
FindHoldsBoth ==
    \E i \in Threads :
        /\ th[i].op \in {"route", "ppt"}
        /\ mapMu.w = i
        /\ HoldsSlot(i)

\* ListIdle holds m.mu as a reader and the lock of a slot
ListHoldsBoth ==
    \E i \in Threads :
        /\ th[i].op = "listIdle"
        /\ i \in mapMu.r
        /\ HoldsSlot(i)

\* goroutine i is not waiting: the lock it asks for next is free.  A
\* sync.RWMutex gives no read lock while a writer is waiting for it.
CanStep(i) ==
    CASE th[i].pc = "routerLock" -> routerMu = 0
      [] th[i].pc = "mapLock" -> mapMu.w = 0 /\ mapMu.r = {}
      [] th[i].pc \in {"mapRLock", "cbRLock"} ->
            /\ mapMu.w = 0
            /\ \A j \in Threads : th[j].pc # "mapLock"
      [] th[i].pc \in {"slotLock", "relLock"} -> slotMu[NextSlot(i)] = 0
      [] OTHER -> th[i].op # "none"

\* some goroutine is running and every one that is running waits for a lock
Deadlocked ==
    /\ \E i \in Threads : th[i].op # "none"
    /\ \A i \in Threads : th[i].op # "none" => ~CanStep(i)

\* a goroutine that has returned holds no lock
ReturnedHoldsNothing ==
    \A i \in Threads :
        th[i].op = "none" => routerMu # i /\ ~HoldsMap(i) /\ ~HoldsSlot(i)

\* the order of the locks: m.mu is taken with no slot lock held, r.mu with
\* neither held, and a callback starts with no lock held
LockOrderStep ==
    \A i \in Threads :
        /\ (~HoldsMap(i) /\ HoldsMap(i)') => ~HoldsSlot(i)
        /\ (routerMu # i /\ routerMu' = i) => ~HoldsMap(i) /\ ~HoldsSlot(i)
        /\ (th[i].op = "none" /\ th'[i].op = "ppt") =>
              routerMu # i /\ ~HoldsMap(i) /\ ~HoldsSlot(i)
        /\ \A s \in SlotIds :
              (slotMu[s] # i /\ slotMu'[s] = i) => ~HoldsSlot(i)

\* C37: the locks are taken in the order router, map, slot (never m.mu
\* with a slot lock held, never r.mu with m.mu or a slot lock held), the
\* callback runs in a goroutine that holds no lock, a goroutine that has
\* returned holds none, and the goroutines of SubmitTask, routeTask,
\* ProcessPendingTasks, CreateSlot, ExecuteTask, ListIdle and Remove never
\* all wait for a lock.
LocksOrderedNoDeadlock ==
    /\ [](ReturnedHoldsNothing /\ ~Deadlocked)
    /\ [][LockOrderStep]_vars

\* ProcessPendingTasks holds r.mu, m.mu and the lock of a slot, and
\* ExecuteTask waits for that lock to reset the slot
ReleaseWaitsForScan ==
    \E i, j \in Threads : \E s \in SlotIds :
        /\ th[i].op = "ppt"
        /\ routerMu = i /\ mapMu.w = i /\ slotMu[s] = i
        /\ th[j].pc = "relLock" /\ th[j].slot = s

\* the watchers whose WatchEvents has returned
Ended == everWatched \ DOMAIN watchers

\* every event sent to the stream of w passes the filter of w
FilterKept ==
    \A w \in WatcherIds : \A i \in DOMAIN received[w] :
        typeFilter[w] = {} \/ received[w][i].ev[1] \in typeFilter[w]

\* a cancelled or shut down subscription leaves the watcher set, and one
\* that has left never comes back and is sent nothing more
EndStep ==
    \A w \in WatcherIds :
        /\ (WatchDone(w) \/ WatchShutdown(w)) => w \in Ended'
        /\ w \in Ended => w \in Ended' /\ received'[w] = received[w]

\* C33: a subscription ends when its RPC is cancelled or the daemon shuts
\* down: WatchEvents returns and its channel leaves the watcher set, after
\* which the fan-out offers it nothing; after shutdown every subscription
\* ends; with a non-empty type filter only events whose type is in the
\* filter are sent.
SubscriptionEnds ==
    /\ []FilterKept
    /\ [][EndStep]_vars
    /\ (server.shutdown ~> (DOMAIN watchers = {}))

\* a subscription with a filter has passed over an event, sent a later one
\* and ended on shutdown
FilteredWatcherEnded ==
    \E w \in Ended :
        /\ server.shutdown
        /\ typeFilter[w] # {}
        /\ \E i \in DOMAIN received[w] : \E n \in DOMAIN published :
              /\ n < received[w][i].n
              /\ published[n][1] \notin typeFilter[w]

\* C34 as stated: whatever the interleaving of routeTask with
\* ProcessPendingTasks, a task is assigned at most once (it never has an
\* execution from each of the two) and its prompt is sent at most once (no
\* ExecuteTask returns nil for a task whose prompt was sent before).
AssignedAndSentOnce ==
    /\ [](\A t \in DOMAIN route :
             ~(exec[<<t, "route">>].pc # "none" /\ exec[<<t, "ppt">>].pc # "none"))
    /\ [][\A k \in DOMAIN exec : Returned(k, TRUE) => k[1] \notin sentOk]_vars

\* the prompt of a task was sent for its routeTask goroutine and the
\* execution ProcessPendingTasks started for the same task is about to
\* send it again
SentAgainByPending ==
    \E t \in DOMAIN route :
        /\ t \in sentOk
        /\ exec[<<t, "route">>].pc = "none"
        /\ exec[<<t, "ppt">>].pc = "send"

\* C35 as stated: a slot FindAvailableAgent returned for one dispatch is
\* not returned for another before the first has marked it busy (no two
\* executions wait to acquire the same slot), and no task is failed
\* because the slot chosen for it was busy.
ChosenSlotNotChosenAgain ==
    /\ \A k1, k2 \in DOMAIN exec :
          (k1 # k2 /\ exec[k1].pc = "acquire" /\ exec[k2].pc = "acquire")
              => exec[k1].slot # exec[k2].slot
    /\ \A t \in DOMAIN store :
          ~(store[t].Status = "failed" /\ store[t].Error = "is busy")

\* two tasks were dispatched to one slot and the later one has failed
\* because the slot was busy with the earlier one
FailedOnBusySlot ==
    \E t, u \in DOMAIN store : \E s \in pool :
        /\ t # u
        /\ store[u].Status = "failed" /\ store[u].Error = "is busy"
        /\ store[u].AssignedTo = s
        /\ agents[s].Status = AgentStatusBusy /\ agents[s].CurrentTask = t

\* C36: no wake-up is lost.  With a slot in the pool, every pending task
\* leaves pending in the end, and a task whose routeTask found no idle slot
\* is dispatched by a later pass of ProcessPendingTasks or leaves pending
\* otherwise.
PendingLeaves ==
    \A t \in 1..MaxWake :
        /\ (GetTask(t).Status = "pending" /\ pool # {})
              ~> (GetTask(t).Status # "pending")
        /\ (GetTask(t).Status = "pending" /\ route[t].pc = "none" /\ pool # {})
              ~> (dispatched[t] > 0 \/ GetTask(t).Status # "pending")

\* the routeTask of a task found the one slot busy and gave up, and a pass
\* of ProcessPendingTasks has since dispatched the task
WokenByPass ==
    \E t \in DOMAIN store : \E s \in pool :
        /\ route[t].pc = "none"
        /\ dispatched[t] = 1
        /\ exec[<<t, "route">>].pc = "none"
        /\ exec[<<t, "ppt">>].pc = "acquire"
        /\ \E u \in DOMAIN store : u # t /\ store[u].AssignedTo = s

\* C38 as stated: with CleanupWorktrees running beside SpawnAgent, every
\* live slot that was spawned with a working copy, and that KillAgent is
\* not removing, still has the directory of that working copy.
LiveSlotKeepsCopy ==
    \A id \in DOMAIN slotTable :
        (/\ slotTable[id].WorktreePath = worktreePath(id)
         /\ ~(killH.pc # "idle" /\ killH.id = id))
            => id \in onDisk

\* the sweep listed the slots before the spawn registered its slot and has
\* removed the working copy of the slot that is now live
SweptUnderSpawn ==
    \E id \in DOMAIN slotTable :
        /\ slotTable[id].WorktreePath = worktreePath(id)
        /\ id \notin onDisk
        /\ id \notin sweepH.running
        /\ killH.pc = "idle"
        /\ Len(removed) > 0 /\ removed[Len(removed)] = worktreePath(id)

\* C39 as stated: every task that is in_progress or waiting_input is
\* assigned to a slot that is in the pool of live slots, whatever
\* dispatches and removals (KillAgent, KillAll) came before.
ActiveTaskOnLiveSlot ==
    \A t \in DOMAIN store :
        store[t].Status \in {"in_progress", "waiting_input"}
            => store[t].AssignedTo \in pool

\* a task was dispatched to a slot and its prompt typed; the slot was then
\* removed and the task is still in_progress on it
TaskOutlivesSlot ==
    \E t \in DOMAIN store :
        /\ store[t].Status = "in_progress"
        /\ store[t].AssignedTo \in spawned \ pool
        /\ \A k \in DOMAIN exec : exec[k].pc = "none"
        /\ \A u \in DOMAIN route : route[u].pc = "none"
        /\ cancel.pc = "idle"

\* C40 as stated: Server.Stop may be called more than once (the Shutdown
\* RPC, then a signal): the later call does not fault, and the effects of
\* the shutdown are applied once (no step of the sequence is logged twice).
StopTwiceIsSafe ==
    /\ server.pc # "panic"
    /\ \A i, j \in DOMAIN stopLog : i # j => stopLog[i] # stopLog[j]

\* the second call of Stop has faulted after the first had killed the
\* sessions and before it had closed the store and removed the socket
FaultedMidShutdown ==
    /\ server.pc = "panic"
    /\ Len(stopLog) >= 2
    /\ server.storeOpen /\ server.socket

=============================================================================
